---- MODULE Spec2Model ----
(***************************************************************************)
(* Veritas marketplace core: VeritasEscrow (the trade ledger),             *)
(* ReputationEngine, VeritasSoulboundBadge (the badge registry) and        *)
(* VeritasCrossChainBridge (the relay), as one state machine.              *)
(*                                                                         *)
(* Every external call of a contract is one action.  A call that reverts   *)
(* rolls the whole transaction back, nested calls included, so a reverting *)
(* call changes no contract state: for each entry point an operator        *)
(* <Name>Err gives the error the call ends with ("ok" when it succeeds),   *)
(* guard by guard in the order of the source, and the action <Name> is     *)
(* enabled exactly when that operator says "ok".                           *)
(*                                                                         *)
(* Time is counted in days (the source's "7 days" is 7).  Fields the       *)
(* contracts only write and never read back in a guard (createdAt,         *)
(* completedAt, join/last-trade timestamps, description and proof strings, *)
(* badge metadata) are left out.                                           *)
(***************************************************************************)
EXTENDS Integers, Sequences, FiniteSets, TLC

-----------------------------------------------------------------------------
(* Accounts *)

ZERO == "0x0"
Owner == "owner"
Resolver == "resolver"
Escrow == "escrow"
Engine == "engine"
Badge == "badge"
Bridge == "bridge"
RemoteBridge == "remoteBridge"
Mallory == "mallory"
Users == {"alice", "bob"}
Buyers == {"alice"}
Callers == Users \cup {Owner, Resolver}
Holders == Callers \cup {Escrow, Bridge}

USDC == "usdc"
DAI == "dai"
Tokens == {USDC, DAI}

(* Roles (AccessControl) *)
DEFAULT_ADMIN_ROLE == "DEFAULT_ADMIN_ROLE"
DISPUTE_RESOLVER_ROLE == "DISPUTE_RESOLVER_ROLE"
PAUSER_ROLE == "PAUSER_ROLE"
ESCROW_ROLE == "ESCROW_ROLE"
CROSS_CHAIN_ROLE == "CROSS_CHAIN_ROLE"
MINTER_ROLE == "MINTER_ROLE"
URI_SETTER_ROLE == "URI_SETTER_ROLE"
OPERATOR_ROLE == "OPERATOR_ROLE"

(* Program constants *)
BASIS_POINTS == 10000
(* VeritasCrossChainBridge: bridgeFeeRate at construction, and its cap *)
InitialBridgeFeeRate == 50
MaxBridgeFeeRate == 500
MAX_FEE_RATE == 1000
InitialFeeRate == 250
DefaultExpiryDuration == 7
InitialDisputeWindow == 3
InitialAutoReleaseDelay == 14
MinRating == 100
MaxRating == 500
AutoReleaseRating == 500

(* Bounds of the model *)
MaxTime == 16
(* the largest uint256, scaled down: a sum above it reverts with Panic(0x11) *)
MaxUint == 255
TickStep == 8
InitialUserBalance == 1100
MaxRecordings == 1
(* recordTrade calls in the trade-history specification, and how many of *)
(* the first ones have either user as the seller                         *)
MaxHistoryTrades == 103
OpenHistoryTrades == 2

TradeIds == {1, 2}
Amounts == {100, 1000}
Ratings == {500}
TickSteps == {TickStep}
ExpiryDurations == {0}
FeeRecipients == {Owner, Escrow}

Tiers == 0..5
None == 0
Bronze == 1
Silver == 2
Gold == 3
Platinum == 4
Diamond == 5

EngineCallers == {Owner, Escrow, Bridge, "alice"}
Subjects == {"alice"}
MessageIds == {"m1", "m2"}
(* the ids the router gives to the messages of the remote ledger, in order *)
RouterMessageIds == <<"m1", "m2">>
SyncPayloads == {[trades |-> 10, points |-> 4000, count |-> 10],
                 [trades |-> 15, points |-> 7500, count |-> 15],
                 [trades |-> 5, points |-> 500, count |-> 5]}
RecordRatings == {100, 500}
ThresholdTiers == {Diamond}
ThresholdUpdates == {[minTrades |-> 1, minRating |-> 300]}
MintTiers == {Bronze, Silver}
ChainSelectors == {1, 2}
Senders == {RemoteBridge, Mallory}
LiquidityStep == 50
MaxLiquidity == 100
(* outbound transfers recorded, at most *)
MaxPending == 2
(* syncReputation calls recorded, and trades recorded on the remote ledger, *)
(* at most                                                                 *)
MaxSyncs == 2
MaxRemoteTrades == 2
(* bridgeTokens amounts: none, and one whose fee at the capped rate is 2 *)
BridgeAmounts == {0, 52}
BridgeFeeRates == {MaxBridgeFeeRate}
(* removeLiquidity amounts: one deposit, and more than the pool ever holds *)
RemoveAmounts == {LiquidityStep, MaxLiquidity + LiquidityStep}
(* the deliveries that are retried: a token transfer and a reputation sync *)
RetryMessages ==
    {m \in [messageId : MessageIds, sourceChainSelector : {1}, sender : Senders,
            data : {[messageType |-> "TokenTransfer", sender |-> "alice",
                     recipient |-> "bob", amount |-> LiquidityStep,
                     data |-> [trades |-> 0, points |-> 0, count |-> 0]],
                    [messageType |-> "ReputationSync", sender |-> "alice",
                     recipient |-> ZERO, amount |-> 0,
                     data |-> [trades |-> 10, points |-> 4000, count |-> 10]]}] :
        TRUE}
TransferAmounts == {50}
BadgeCallers == {Owner, "alice", "bob"}
AccessCallers == {Owner, Escrow, Bridge, Badge, "alice"}
AllRoles == {DEFAULT_ADMIN_ROLE, DISPUTE_RESOLVER_ROLE, PAUSER_ROLE, ESCROW_ROLE,
             CROSS_CHAIN_ROLE, MINTER_ROLE, URI_SETTER_ROLE, OPERATOR_ROLE}
Recipients == Users \cup {ZERO}
BadgeTiers == {None, Bronze, Silver}
TokenIds == {1, 2}
FineSteps == {1}
RatingInputs == {99, 100, 500, 501}
FeeRates == {500, 1001}
FirstEvidence == "e0"
Winners == Users \cup {Owner}
Evidence == {"e1"}
MixedRatings == {100, 425}
DelayUpdates == {1, MaxUint}
Keepers == Callers \ Users
TierSyncIds == {"t1", "t2", "t3"}
TierPayloads == {[trades |-> 10, points |-> 4000, count |-> 10],
                 [trades |-> 14, points |-> 7040, count |-> 14],
                 [trades |-> 1, points |-> 210, count |-> 1],
                 [trades |-> 9, points |-> 4500, count |-> 9],
                 [trades |-> 10, points |-> 3990, count |-> 10],
                 [trades |-> 50, points |-> 24000, count |-> 50],
                 [trades |-> 100, points |-> 49000, count |-> 100],
                 [trades |-> 250, points |-> 123750, count |-> 250],
                 [trades |-> 250, points |-> 115000, count |-> 250]}
TradeCounts == {0, 9, 10, 24, 25, 49, 50, 99, 100, 249, 250, 251}
AverageRatings == {0, 399, 400, 449, 450, 460, 479, 480, 489, 490, 494, 495, 500}

-----------------------------------------------------------------------------
VARIABLES
    (* ERC-20 *)
    balances,
    (* block.timestamp *)
    now,
    (* VeritasEscrow *)
    trades, disputes, tradeNonce, feeRecipient, platformFeeRate,
    supportedTokens, paused, disputeWindow, autoReleaseDelay, escrowRoles,
    (* ReentrancyGuard _status of the escrow, and the escrow call that is *)
    (* suspended in an external call, if any                              *)
    guardStatus, executing,
    (* ReputationEngine *)
    userReputations, processedCrossChainUpdates, tierThresholds, engineRoles,
    (* the TradeRecorded events of the engine, counted per trade id *)
    recorded,
    (* userTradeHistory: per user the TradeRecords kept, oldest first *)
    userTradeHistory,
    (* VeritasSoulboundBadge *)
    userBadges, userHighestTier, tokenIdCounter, badgeRoles,
    (* ERC721 _owners and the tier of badgeMetadata, by token id *)
    owners, badgeMetadata,
    (* VeritasCrossChainBridge *)
    chainConfigs, processedMessages, liquidityPool, bridgeRoles,
    bridgeFeeRate, pendingTransfers,
    (* the ReputationSync messages syncReputation handed to the router *)
    sentSyncs,
    (* the ledger at the other end of the route of chain 1: its engine's *)
    (* userReputations, the messages of sentSyncs it has applied, and    *)
    (* the messages its own syncReputation sent to this ledger           *)
    remoteReputations, remoteProcessed, inFlight,
    (* the Transfer events of the escrow's calls, tallied per trade, and the *)
    (* tokens that reached the escrow other than through createTrade        *)
    paid, strayInflow,
    (* how many times each inbound message id has been applied *)
    applied,
    (* the inbound message ids a delivery of which failed after the replay *)
    (* check, each with the error of that delivery                         *)
    rejected,
    (* the last call: entry point, trade, sync or message id, outcome, arguments *)
    last

tokenVars == <<balances>>
guardVars == <<guardStatus, executing>>

(* ReentrancyGuard: the two values of _status *)
NOT_ENTERED == "NOT_ENTERED"
ENTERED == "ENTERED"

(* no escrow call is suspended in an external call *)
NoCall == [op |-> "none", id |-> 0, callee |-> ZERO]
escrowVars == <<trades, disputes, tradeNonce, feeRecipient, platformFeeRate,
                supportedTokens, paused, disputeWindow, autoReleaseDelay,
                escrowRoles, paid, strayInflow, guardVars>>
engineVars == <<userReputations, processedCrossChainUpdates, tierThresholds,
                engineRoles, recorded, userTradeHistory>>
badgeVars == <<userBadges, userHighestTier, tokenIdCounter, badgeRoles, owners,
               badgeMetadata>>
sendVars == <<bridgeFeeRate, pendingTransfers>>
relayVars == <<sentSyncs, remoteReputations, remoteProcessed, inFlight>>
bridgeVars == <<chainConfigs, processedMessages, liquidityPool, bridgeRoles, applied,
               rejected, sendVars, relayVars>>
vars == <<balances, now, trades, disputes, tradeNonce, feeRecipient,
          platformFeeRate, supportedTokens, paused, disputeWindow,
          autoReleaseDelay, escrowRoles, userReputations,
          processedCrossChainUpdates, tierThresholds, engineRoles, recorded,
          userBadges, userHighestTier, tokenIdCounter, badgeRoles, owners,
          badgeMetadata, chainConfigs,
          processedMessages, liquidityPool, bridgeRoles, paid, strayInflow, applied,
          guardStatus, executing, bridgeFeeRate, pendingTransfers, rejected,
          userTradeHistory, sentSyncs, remoteReputations, remoteProcessed,
          inFlight, last>>

HasRole(roles, role, account) == <<role, account>> \in roles

CallWith(op, id, args) == [op |-> op, id |-> id, err |-> "ok", args |-> args]

Call(op, id) == CallWith(op, id, <<>>)

-----------------------------------------------------------------------------
(* ERC-20 *)

Transfer(b, token, from, to, amount) ==
    LET debited == [b EXCEPT ![token][from] = @ - amount]
    IN  [debited EXCEPT ![token][to] = @ + amount]

-----------------------------------------------------------------------------
(* VeritasSoulboundBadge *)

BadgeState == [userBadges |-> userBadges, userHighestTier |-> userHighestTier,
               tokenIdCounter |-> tokenIdCounter, owners |-> owners,
               badgeMetadata |-> badgeMetadata]

WriteBadges(bs) ==
    /\ userBadges' = bs.userBadges
    /\ userHighestTier' = bs.userHighestTier
    /\ tokenIdCounter' = bs.tokenIdCounter
    /\ owners' = bs.owners
    /\ badgeMetadata' = bs.badgeMetadata

MintBadgeErrNoDuplicate(roles, bs, caller, to, tier) ==
    IF ~HasRole(roles, MINTER_ROLE, caller) THEN "AccessControlUnauthorizedAccount"
    ELSE IF to = ZERO THEN "ZeroAddress"
    ELSE IF tier = None THEN "InvalidTier"
    ELSE "ok"

MintBadgeErr(roles, bs, caller, to, tier) ==
    IF ~HasRole(roles, MINTER_ROLE, caller) THEN "AccessControlUnauthorizedAccount"
    ELSE IF to = ZERO THEN "ZeroAddress"
    ELSE IF tier = None THEN "InvalidTier"
    ELSE IF bs.userBadges[to][tier] # 0 THEN "BadgeAlreadyExists"
    ELSE "ok"

RaiseHighestTierAlways(highest, to, tier) == [highest EXCEPT ![to] = tier]

RaiseHighestTier(highest, to, tier) ==
    IF tier > highest[to] THEN [highest EXCEPT ![to] = tier] ELSE highest

MintBadgeApply(bs, to, tier) ==
    LET tokenId == bs.tokenIdCounter + 1
    IN  [userBadges |-> [bs.userBadges EXCEPT ![to][tier] = tokenId],
         userHighestTier |-> RaiseHighestTier(bs.userHighestTier, to, tier),
         tokenIdCounter |-> tokenId,
         owners |-> Append(bs.owners, to),
         badgeMetadata |-> Append(bs.badgeMetadata, [tier |-> tier])]

(* upgradeBadge mints through this.mintBadge: the caller mintBadge sees is *)
(* the badge contract itself.                                              *)
UpgradeBadgeErr(roles, bs, caller, holder, newTier) ==
    IF ~HasRole(roles, MINTER_ROLE, caller) THEN "AccessControlUnauthorizedAccount"
    ELSE IF newTier <= bs.userHighestTier[holder] THEN "InvalidTier"
    ELSE MintBadgeErr(roles, bs, Badge, holder, newTier)

-----------------------------------------------------------------------------
(* ReputationEngine *)

NewReputation == [totalTrades |-> 0, successfulTrades |-> 0, disputesWon |-> 0,
                  disputesLost |-> 0, totalRatingPoints |-> 0, ratingCount |-> 0,
                  isActive |-> TRUE]

NoReputation == [NewReputation EXCEPT !.isActive = FALSE]

EnsureRegistered(reps, user) ==
    IF ~reps[user].isActive THEN [reps EXCEPT ![user] = NewReputation] ELSE reps

CalculateAverageRating(reps, user) ==
    IF reps[user].ratingCount = 0 THEN 0
    ELSE reps[user].totalRatingPoints \div reps[user].ratingCount

UpdateReputation(reps, user, rating) ==
    [reps EXCEPT ![user].totalTrades = @ + 1,
                 ![user].successfulTrades = @ + 1,
                 ![user].totalRatingPoints = @ + rating,
                 ![user].ratingCount = @ + 1]

MeetsThresholdStrictly(th, tier, tradeCount, rating) ==
    tradeCount > th[tier].minTrades /\ rating > th[tier].minRating

MeetsThresholdTradesOnly(th, tier, tradeCount, rating) ==
    tradeCount >= th[tier].minTrades

MeetsThreshold(th, tier, tradeCount, rating) ==
    tradeCount >= th[tier].minTrades /\ rating >= th[tier].minRating

DetermineEligibleTier(th, tradeCount, rating) ==
    IF MeetsThreshold(th, Diamond, tradeCount, rating) THEN Diamond
    ELSE IF MeetsThreshold(th, Platinum, tradeCount, rating) THEN Platinum
    ELSE IF MeetsThreshold(th, Gold, tradeCount, rating) THEN Gold
    ELSE IF MeetsThreshold(th, Silver, tradeCount, rating) THEN Silver
    ELSE IF MeetsThreshold(th, Bronze, tradeCount, rating) THEN Bronze
    ELSE None

CheckAndMintBadgeUncaught(reps, th, roles, bs, user) ==
    LET avgRating == CalculateAverageRating(reps, user)
        newTier == DetermineEligibleTier(th, reps[user].successfulTrades, avgRating)
    IN  IF newTier > bs.userHighestTier[user]
        THEN MintBadgeApply(bs, user, newTier)
        ELSE bs

(* The mint is inside try/catch: a rejected mint leaves the registry as it was. *)
CheckAndMintBadge(reps, th, roles, bs, user) ==
    LET avgRating == CalculateAverageRating(reps, user)
        newTier == DetermineEligibleTier(th, reps[user].successfulTrades, avgRating)
    IN  IF newTier > bs.userHighestTier[user]
           /\ MintBadgeErr(roles, bs, Engine, user, newTier) = "ok"
        THEN MintBadgeApply(bs, user, newTier)
        ELSE bs

RecordTradeErrOpen(roles, caller, sellerRating, buyerRating) ==
    IF sellerRating < MinRating \/ sellerRating > MaxRating THEN "InvalidRating"
    ELSE IF buyerRating < MinRating \/ buyerRating > MaxRating THEN "InvalidRating"
    ELSE "ok"

RecordTradeErr(roles, caller, sellerRating, buyerRating) ==
    IF ~HasRole(roles, ESCROW_ROLE, caller) THEN "AccessControlUnauthorizedAccount"
    ELSE IF sellerRating < MinRating \/ sellerRating > MaxRating THEN "InvalidRating"
    ELSE IF buyerRating < MinRating \/ buyerRating > MaxRating THEN "InvalidRating"
    ELSE "ok"

RecordTradeRepsSwapped(reps, seller, buyer, sellerRating, buyerRating) ==
    UpdateReputation(UpdateReputation(EnsureRegistered(EnsureRegistered(reps, seller), buyer),
                                      seller, buyerRating),
                     buyer, sellerRating)

RecordTradeReps(reps, seller, buyer, sellerRating, buyerRating) ==
    LET registered == EnsureRegistered(EnsureRegistered(reps, seller), buyer)
    IN  UpdateReputation(UpdateReputation(registered, seller, sellerRating),
                         buyer, buyerRating)

(* _updateReputation, the trade history: at most HistoryCap records are kept; *)
(* when the history is full every record moves one place down and the last   *)
(* place is dropped, then the new record is pushed.  The amount and the      *)
(* timestamp of a TradeRecord are left out.                                  *)
HistoryCap == 100

TradeRecord(tradeId, counterparty, rating, wasBuyer) ==
    [tradeId |-> tradeId, counterparty |-> counterparty, rating |-> rating,
     wasBuyer |-> wasBuyer]

PushHistoryDroppingNewest(history, record) ==
    IF Len(history) >= HistoryCap
    THEN Append(SubSeq(history, 1, Len(history) - 1), record)
    ELSE Append(history, record)

PushHistory(history, record) ==
    IF Len(history) >= HistoryCap
    THEN Append([i \in 1..(Len(history) - 1) |-> history[i + 1]], record)
    ELSE Append(history, record)

(* recordTrade: the seller's record first, then the buyer's *)
RecordTradeHistory(hist, tradeId, seller, buyer, sellerRating, buyerRating) ==
    LET sold == [hist EXCEPT ![seller] =
                    PushHistory(@, TradeRecord(tradeId, buyer, sellerRating, FALSE))]
    IN  [sold EXCEPT ![buyer] =
            PushHistory(@, TradeRecord(tradeId, seller, buyerRating, TRUE))]

(* the TradeRecorded events of a trade id, and one more of them *)
RecordedCount(counts, tradeId) ==
    IF tradeId \in DOMAIN counts THEN counts[tradeId] ELSE 0

CountRecording(counts, tradeId) ==
    [id \in DOMAIN counts \cup {tradeId} |->
        RecordedCount(counts, id) + (IF id = tradeId THEN 1 ELSE 0)]

RecordTradeBadges(reps, th, roles, bs, seller, buyer) ==
    CheckAndMintBadge(reps, th, roles,
                      CheckAndMintBadge(reps, th, roles, bs, seller), buyer)

RegisterUserErr(caller) == "ok"

RegisterUser(caller, user) ==
    /\ RegisterUserErr(caller) = "ok"
    /\ userReputations' = EnsureRegistered(userReputations, user)
    /\ last' = CallWith("registerUser", 0, <<caller, user>>)
    /\ UNCHANGED <<balances, now, escrowVars, processedCrossChainUpdates,
                   tierThresholds, engineRoles, recorded, userTradeHistory, badgeVars, bridgeVars>>

RecordDisputeResolutionErr(roles, caller) ==
    IF ~HasRole(roles, DISPUTE_RESOLVER_ROLE, caller)
    THEN "AccessControlUnauthorizedAccount" ELSE "ok"

RecordDisputeResolutionReps(reps, winner, loser) ==
    LET won == [reps EXCEPT ![winner].disputesWon = @ + 1]
    IN  [won EXCEPT ![loser].disputesLost = @ + 1]

SyncCrossChainReputationErr(roles, caller) ==
    IF ~HasRole(roles, CROSS_CHAIN_ROLE, caller)
    THEN "AccessControlUnauthorizedAccount" ELSE "ok"

SyncAlwaysApplies(processed, syncId) == FALSE

SyncAlreadyProcessed(processed, syncId) == syncId \in processed

SyncRepsOverwriting(reps, user, additionalTrades, additionalRatingPoints, additionalRatingCount) ==
    [EnsureRegistered(reps, user) EXCEPT
        ![user].totalTrades = additionalTrades,
        ![user].successfulTrades = additionalTrades,
        ![user].totalRatingPoints = additionalRatingPoints,
        ![user].ratingCount = additionalRatingCount]

SyncReps(reps, user, additionalTrades, additionalRatingPoints, additionalRatingCount) ==
    [EnsureRegistered(reps, user) EXCEPT
        ![user].totalTrades = @ + additionalTrades,
        ![user].successfulTrades = @ + additionalTrades,
        ![user].totalRatingPoints = @ + additionalRatingPoints,
        ![user].ratingCount = @ + additionalRatingCount]

-----------------------------------------------------------------------------
(* ReputationEngine and VeritasSoulboundBadge entry points, called directly *)

(* syncId is keccak256(messageId, sourceChainSelector, sender) on the bridge *)
(* and an arbitrary bytes32 for any other holder of CROSS_CHAIN_ROLE.       *)
SyncId(messageId, sourceChainSelector, sender) ==
    <<messageId, sourceChainSelector, sender>>

EngineSync(reps, processed, th, roles, bs, user, p, syncId) ==
    IF SyncAlreadyProcessed(processed, syncId)
    THEN [reps |-> reps, processed |-> processed, bs |-> bs]
    ELSE LET synced == SyncReps(reps, user, p.trades, p.points, p.count)
         IN  [reps |-> synced, processed |-> processed \cup {syncId},
              bs |-> CheckAndMintBadge(synced, th, roles, bs, user)]

SyncCrossChainReputation(caller, user, p, syncId) ==
    /\ SyncCrossChainReputationErr(engineRoles, caller) = "ok"
    /\ LET r == EngineSync(userReputations, processedCrossChainUpdates,
                           tierThresholds, badgeRoles, BadgeState, user, p, syncId)
       IN  /\ userReputations' = r.reps
           /\ processedCrossChainUpdates' = r.processed
           /\ WriteBadges(r.bs)
    /\ last' = CallWith("syncCrossChainReputation", syncId, <<user, p>>)
    /\ UNCHANGED <<balances, now, escrowVars, tierThresholds, engineRoles, recorded, userTradeHistory,
                   badgeRoles, bridgeVars>>

RecordTrade(caller, tradeId, seller, buyer, sellerRating, buyerRating) ==
    /\ RecordTradeErr(engineRoles, caller, sellerRating, buyerRating) = "ok"
    /\ RecordedCount(recorded, tradeId) < MaxRecordings
    /\ userTradeHistory' = RecordTradeHistory(userTradeHistory, tradeId, seller, buyer,
                                              sellerRating, buyerRating)
    /\ LET reps == RecordTradeReps(userReputations, seller, buyer,
                                   sellerRating, buyerRating)
           bs == RecordTradeBadges(reps, tierThresholds, badgeRoles, BadgeState,
                                   seller, buyer)
       IN  /\ userReputations' = reps
           /\ WriteBadges(bs)
    /\ recorded' = CountRecording(recorded, tradeId)
    /\ last' = CallWith("recordTrade", tradeId, <<seller, buyer>>)
    /\ UNCHANGED <<balances, now, escrowVars, processedCrossChainUpdates,
                   tierThresholds, engineRoles, badgeRoles, bridgeVars>>

RecordDisputeResolution(caller, tradeId, winner, loser) ==
    /\ RecordDisputeResolutionErr(engineRoles, caller) = "ok"
    /\ userReputations' = RecordDisputeResolutionReps(userReputations, winner, loser)
    /\ last' = CallWith("recordDisputeResolution", tradeId, <<winner, loser>>)
    /\ UNCHANGED <<balances, now, escrowVars, processedCrossChainUpdates,
                   tierThresholds, engineRoles, recorded, userTradeHistory, badgeVars, bridgeVars>>

(* a direct call to the engine or the badge registry that reverts *)
DirectCallReverts(caller, op, err) ==
    /\ err # "ok"
    /\ last' = [op |-> op, id |-> 0, err |-> err, args |-> <<caller>>]
    /\ UNCHANGED <<balances, now, escrowVars, engineVars, badgeVars, bridgeVars>>

UpdateTierThresholdErr(caller, tier) ==
    IF ~HasRole(engineRoles, DEFAULT_ADMIN_ROLE, caller)
    THEN "AccessControlUnauthorizedAccount"
    ELSE IF tier = None THEN "InvalidTierThreshold"
    ELSE "ok"

UpdateTierThreshold(caller, tier, minTrades, minRating) ==
    /\ UpdateTierThresholdErr(caller, tier) = "ok"
    /\ tierThresholds' = [tierThresholds EXCEPT
                            ![tier] = [minTrades |-> minTrades, minRating |-> minRating]]
    /\ last' = CallWith("updateTierThreshold", tier, <<minTrades, minRating>>)
    /\ UNCHANGED <<balances, now, escrowVars, userReputations,
                   processedCrossChainUpdates, engineRoles, recorded, userTradeHistory, badgeVars,
                   bridgeVars>>

MintBadge(caller, to, tier) ==
    /\ MintBadgeErr(badgeRoles, BadgeState, caller, to, tier) = "ok"
    /\ LET bs == MintBadgeApply(BadgeState, to, tier)
       IN  /\ WriteBadges(bs)
    /\ last' = CallWith("mintBadge", tier, <<to>>)
    /\ UNCHANGED <<balances, now, escrowVars, engineVars, badgeRoles, bridgeVars>>

(* a mintBadge call that reverts *)
MintBadgeReverts(caller, to, tier) ==
    /\ MintBadgeErr(badgeRoles, BadgeState, caller, to, tier) # "ok"
    /\ last' = [CallWith("mintBadge", tier, <<to>>) EXCEPT
                    !.err = MintBadgeErr(badgeRoles, BadgeState, caller, to, tier)]
    /\ UNCHANGED <<balances, now, escrowVars, engineVars, badgeVars, bridgeVars>>

(* ERC721 _ownerOf: the zero address for a token that was never minted *)
OwnerOf(tokenId) ==
    IF tokenId \in 1..Len(owners) THEN owners[tokenId] ELSE ZERO

(* _update, reached from transferFrom with auth = msg.sender.  The ERC721 *)
(* base refuses a zero recipient before calling _update, and refuses a    *)
(* token without an owner inside super._update.                           *)
UpdateErrTransferable(from, to) == "ok"

UpdateErr(from, to) ==
    IF from # ZERO /\ to # ZERO THEN "SoulboundTokenNonTransferable" ELSE "ok"

TransferFromErr(caller, from, to, tokenId) ==
    IF to = ZERO THEN "ERC721InvalidReceiver"
    ELSE IF UpdateErr(OwnerOf(tokenId), to) # "ok" THEN UpdateErr(OwnerOf(tokenId), to)
    ELSE IF OwnerOf(tokenId) = ZERO THEN "ERC721NonexistentToken"
    ELSE IF caller # OwnerOf(tokenId) THEN "ERC721InsufficientApproval"
    ELSE IF OwnerOf(tokenId) # from THEN "ERC721IncorrectOwner"
    ELSE "ok"

TransferFrom(caller, from, to, tokenId) ==
    /\ IF TransferFromErr(caller, from, to, tokenId) = "ok"
       THEN owners' = [owners EXCEPT ![tokenId] = to]
       ELSE UNCHANGED owners
    /\ last' = [CallWith("transferFrom", tokenId, <<from, to>>) EXCEPT
                    !.err = TransferFromErr(caller, from, to, tokenId)]
    /\ UNCHANGED <<balances, now, escrowVars, engineVars, userBadges, userHighestTier,
                   tokenIdCounter, badgeRoles, badgeMetadata, bridgeVars>>

ApproveErr(caller, to, tokenId) == "SoulboundTokenNonTransferable"

Approve(caller, to, tokenId) ==
    /\ last' = [CallWith("approve", tokenId, <<to>>) EXCEPT
                    !.err = ApproveErr(caller, to, tokenId)]
    /\ UNCHANGED <<balances, now, escrowVars, engineVars, badgeVars, bridgeVars>>

SetApprovalForAllErr(caller, operator, approved) == "SoulboundTokenNonTransferable"

SetApprovalForAll(caller, operator, approved) ==
    /\ last' = [CallWith("setApprovalForAll", 0, <<operator, approved>>) EXCEPT
                    !.err = SetApprovalForAllErr(caller, operator, approved)]
    /\ UNCHANGED <<balances, now, escrowVars, engineVars, badgeVars, bridgeVars>>

(* locked(tokenId): reverts for a token without an owner, true otherwise *)
LockedErr(tokenId) ==
    IF OwnerOf(tokenId) = ZERO THEN "ERC721NonexistentToken" ELSE "ok"

Locked(tokenId) == TRUE

UpgradeBadge(caller, holder, newTier) ==
    /\ UpgradeBadgeErr(badgeRoles, BadgeState, caller, holder, newTier) = "ok"
    /\ LET bs == MintBadgeApply(BadgeState, holder, newTier)
       IN  /\ WriteBadges(bs)
    /\ last' = CallWith("upgradeBadge", newTier, <<holder, caller>>)
    /\ UNCHANGED <<balances, now, escrowVars, engineVars, badgeRoles, bridgeVars>>

UpgradeBadgeReverts(caller, holder, newTier) ==
    /\ UpgradeBadgeErr(badgeRoles, BadgeState, caller, holder, newTier) # "ok"
    /\ last' = [CallWith("upgradeBadge", newTier, <<holder, caller>>) EXCEPT
                    !.err = UpgradeBadgeErr(badgeRoles, BadgeState, caller, holder,
                                            newTier)]
    /\ UNCHANGED <<balances, now, escrowVars, engineVars, badgeVars, bridgeVars>>

GrantBadgeRoleErr(caller) ==
    IF ~HasRole(badgeRoles, DEFAULT_ADMIN_ROLE, caller)
    THEN "AccessControlUnauthorizedAccount" ELSE "ok"

GrantBadgeRole(caller, role, account) ==
    /\ GrantBadgeRoleErr(caller) = "ok"
    /\ <<role, account>> \notin badgeRoles
    /\ badgeRoles' = badgeRoles \cup {<<role, account>>}
    /\ last' = CallWith("grantRole", 0, <<role, account>>)
    /\ UNCHANGED <<balances, now, escrowVars, engineVars, userBadges,
                   userHighestTier, tokenIdCounter, owners, badgeMetadata,
                   bridgeVars>>

(* AccessControl.revokeRole on the badge registry *)
RevokeBadgeRole(caller, role, account) ==
    /\ GrantBadgeRoleErr(caller) = "ok"
    /\ <<role, account>> \in badgeRoles
    /\ badgeRoles' = badgeRoles \ {<<role, account>>}
    /\ last' = CallWith("revokeRole", 0, <<role, account>>)
    /\ UNCHANGED <<balances, now, escrowVars, engineVars, userBadges,
                   userHighestTier, tokenIdCounter, owners, badgeMetadata,
                   bridgeVars>>

-----------------------------------------------------------------------------
(* VeritasCrossChainBridge *)

NoChain == [bridgeContract |-> ZERO, isActive |-> FALSE]

NoPayload == [trades |-> 0, points |-> 0, count |-> 0]

(* CrossChainMessage, the decoded data of an inbound message *)
CrossChainMessages ==
    {[messageType |-> "TokenTransfer", sender |-> "alice", recipient |-> "bob",
      amount |-> a, data |-> NoPayload] : a \in TransferAmounts}
    \cup {[messageType |-> "ReputationSync", sender |-> u, recipient |-> ZERO,
           amount |-> 0, data |-> p] : u \in Subjects, p \in SyncPayloads}
    \cup {[messageType |-> "BadgeRecognition", sender |-> "alice", recipient |-> ZERO,
           amount |-> 0, data |-> NoPayload]}

(* Client.Any2EVMMessage, as the router hands it to ccipReceive *)
Messages ==
    [messageId : MessageIds, sourceChainSelector : ChainSelectors,
     sender : Senders, data : CrossChainMessages]

ConfigureChainErr(caller) ==
    IF ~HasRole(bridgeRoles, DEFAULT_ADMIN_ROLE, caller)
    THEN "AccessControlUnauthorizedAccount" ELSE "ok"

ConfigureChain(caller, chainSelector, bridgeContract) ==
    /\ ConfigureChainErr(caller) = "ok"
    /\ chainConfigs[chainSelector] # [bridgeContract |-> bridgeContract, isActive |-> TRUE]
    /\ chainConfigs' = [chainConfigs EXCEPT ![chainSelector] =
            [bridgeContract |-> bridgeContract, isActive |-> TRUE]]
    /\ last' = CallWith("configureChain", chainSelector, <<bridgeContract>>)
    /\ UNCHANGED <<balances, now, escrowVars, engineVars, badgeVars,
                   processedMessages, liquidityPool, bridgeRoles, applied, rejected, relayVars, sendVars>>

(* addLiquidity; the provider's allowance to the bridge is taken as granted *)
AddLiquidityErr(caller, destinationChain, amount) ==
    IF ~chainConfigs[destinationChain].isActive THEN "UnsupportedChain"
    ELSE IF balances[USDC][caller] < amount THEN "ERC20InsufficientBalance"
    ELSE "ok"

AddLiquidity(caller, destinationChain, amount) ==
    /\ AddLiquidityErr(caller, destinationChain, amount) = "ok"
    /\ liquidityPool[destinationChain] < MaxLiquidity
    /\ balances' = Transfer(balances, USDC, caller, Bridge, amount)
    /\ liquidityPool' = [liquidityPool EXCEPT ![destinationChain] = @ + amount]
    /\ last' = CallWith("addLiquidity", destinationChain, <<amount>>)
    /\ UNCHANGED <<now, escrowVars, engineVars, badgeVars, chainConfigs,
                   processedMessages, bridgeRoles, applied, rejected, relayVars, sendVars>>

ReplayErrNone(processed, messageId) == "ok"

ReplayErr(processed, messageId) ==
    IF messageId \in processed THEN "MessageAlreadyProcessed" ELSE "ok"

SourceErrNone(configs, sourceChain, sourceAddress) == "ok"

SourceErr(configs, sourceChain, sourceAddress) ==
    IF sourceAddress # configs[sourceChain].bridgeContract
    THEN "InvalidMessageSource" ELSE "ok"

HandleTokenTransferErr(message) ==
    IF balances[USDC][Bridge] < message.amount THEN "InsufficientLiquidity" ELSE "ok"

HandleReputationSyncErr(message) == SyncCrossChainReputationErr(engineRoles, Bridge)

(* _ccipReceive: the replay check comes first, the source check second *)
CcipReceiveErr(m) ==
    IF ReplayErr(processedMessages, m.messageId) # "ok"
    THEN ReplayErr(processedMessages, m.messageId)
    ELSE IF SourceErr(chainConfigs, m.sourceChainSelector, m.sender) # "ok"
    THEN SourceErr(chainConfigs, m.sourceChainSelector, m.sender)
    ELSE IF m.data.messageType = "TokenTransfer" THEN HandleTokenTransferErr(m.data)
    ELSE IF m.data.messageType = "ReputationSync" THEN HandleReputationSyncErr(m.data)
    ELSE "ok"

CcipReceive(m) ==
    LET message == m.data
        syncId == SyncId(m.messageId, m.sourceChainSelector, message.sender)
        r == EngineSync(userReputations, processedCrossChainUpdates, tierThresholds,
                        badgeRoles, BadgeState, message.sender, message.data, syncId)
    IN  /\ CcipReceiveErr(m) = "ok"
        /\ processedMessages' = processedMessages \cup {m.messageId}
        /\ applied' = [applied EXCEPT ![m.messageId] = @ + 1]
        /\ UNCHANGED <<rejected, relayVars>>
        /\ IF message.messageType = "TokenTransfer"
           THEN /\ balances' = Transfer(balances, USDC, Bridge, message.recipient,
                                        message.amount)
                /\ UNCHANGED <<userReputations, processedCrossChainUpdates, userBadges,
                               userHighestTier, tokenIdCounter, owners,
                               badgeMetadata>>
           ELSE IF message.messageType = "ReputationSync"
           THEN /\ userReputations' = r.reps
                /\ processedCrossChainUpdates' = r.processed
                /\ WriteBadges(r.bs)
                /\ UNCHANGED balances
           ELSE UNCHANGED <<balances, userReputations, processedCrossChainUpdates,
                            userBadges, userHighestTier, tokenIdCounter, owners,
                            badgeMetadata>>
        /\ last' = CallWith("ccipReceive", m.messageId, <<m>>)
        /\ UNCHANGED <<now, escrowVars, tierThresholds, engineRoles, recorded, userTradeHistory,
                       badgeRoles, chainConfigs, liquidityPool, bridgeRoles,
                       sendVars>>

(* bridgeTokens: the fee and what is left of the amount *)
BridgeFee(amount) == (amount * bridgeFeeRate) \div BASIS_POINTS

NetAmount(amount) == amount - BridgeFee(amount)

(* bridgeTokens; the sender's allowance to the bridge is taken as granted, *)
(* and the router accepts the message and is paid its LINK fee             *)
BridgeTokensErr(caller, destinationChain, amount) ==
    IF ~chainConfigs[destinationChain].isActive THEN "UnsupportedChain"
    ELSE IF amount = 0 THEN "InsufficientAmount"
    ELSE IF balances[USDC][caller] < amount THEN "ERC20InsufficientBalance"
    ELSE "ok"

UsesLiquidityPoolWhenCovered(destinationChain, amount, useLiquidityPool) ==
    liquidityPool[destinationChain] >= amount

(* the condition of the fast path, on the net amount *)
UsesLiquidityPool(destinationChain, amount, useLiquidityPool) ==
    useLiquidityPool /\ liquidityPool[destinationChain] >= amount

(* _sendCCIPMessage: the transfer is stored under the message id the router *)
(* returns, here the number of the message                                  *)
SendCCIPMessage(caller, destinationChain, recipient, amount) ==
    Append(pendingTransfers,
           [sender |-> caller, recipient |-> recipient, amount |-> amount,
            destinationChain |-> destinationChain, timestamp |-> now,
            isProcessed |-> FALSE])

BridgeTokens(caller, destinationChain, recipient, amount, useLiquidityPool) ==
    LET fee == BridgeFee(amount)
        netAmount == NetAmount(amount)
        received == Transfer(balances, USDC, caller, Bridge, amount)
    IN  /\ BridgeTokensErr(caller, destinationChain, amount) = "ok"
        /\ Len(pendingTransfers) < MaxPending
        /\ balances' = IF fee > 0 THEN Transfer(received, USDC, Bridge, Owner, fee)
                       ELSE received
        /\ liquidityPool' =
              IF UsesLiquidityPool(destinationChain, netAmount, useLiquidityPool)
              THEN [liquidityPool EXCEPT ![destinationChain] = @ - netAmount]
              ELSE liquidityPool
        /\ pendingTransfers' = SendCCIPMessage(caller, destinationChain, recipient,
                                               netAmount)
        /\ last' = CallWith("bridgeTokens", destinationChain,
                            <<caller, amount, useLiquidityPool>>)
        /\ UNCHANGED <<now, escrowVars, engineVars, badgeVars, chainConfigs,
                       processedMessages, bridgeRoles, applied, rejected, relayVars, bridgeFeeRate>>

BridgeTokensReverts(caller, destinationChain, amount, useLiquidityPool) ==
    /\ BridgeTokensErr(caller, destinationChain, amount) # "ok"
    /\ last' = [CallWith("bridgeTokens", destinationChain,
                         <<caller, amount, useLiquidityPool>>) EXCEPT
                    !.err = BridgeTokensErr(caller, destinationChain, amount)]
    /\ UNCHANGED <<balances, now, escrowVars, engineVars, badgeVars, bridgeVars>>

AddLiquidityReverts(caller, destinationChain, amount) ==
    /\ AddLiquidityErr(caller, destinationChain, amount) # "ok"
    /\ last' = [CallWith("addLiquidity", destinationChain, <<amount>>) EXCEPT
                    !.err = AddLiquidityErr(caller, destinationChain, amount)]
    /\ UNCHANGED <<balances, now, escrowVars, engineVars, badgeVars, bridgeVars>>

(* removeLiquidity *)
RemoveLiquidityErr(caller, destinationChain, amount) ==
    IF ~HasRole(bridgeRoles, OPERATOR_ROLE, caller)
    THEN "AccessControlUnauthorizedAccount"
    ELSE IF liquidityPool[destinationChain] < amount THEN "InsufficientLiquidity"
    ELSE IF balances[USDC][Bridge] < amount THEN "ERC20InsufficientBalance"
    ELSE "ok"

RemoveLiquidity(caller, destinationChain, amount) ==
    /\ RemoveLiquidityErr(caller, destinationChain, amount) = "ok"
    /\ liquidityPool' = [liquidityPool EXCEPT ![destinationChain] = @ - amount]
    /\ balances' = Transfer(balances, USDC, Bridge, caller, amount)
    /\ last' = CallWith("removeLiquidity", destinationChain, <<caller, amount>>)
    /\ UNCHANGED <<now, escrowVars, engineVars, badgeVars, chainConfigs,
                   processedMessages, bridgeRoles, applied, rejected, relayVars, sendVars>>

RemoveLiquidityReverts(caller, destinationChain, amount) ==
    /\ RemoveLiquidityErr(caller, destinationChain, amount) # "ok"
    /\ last' = [CallWith("removeLiquidity", destinationChain, <<caller, amount>>)
                    EXCEPT !.err = RemoveLiquidityErr(caller, destinationChain, amount)]
    /\ UNCHANGED <<balances, now, escrowVars, engineVars, badgeVars, bridgeVars>>

(* setBridgeFeeRate *)
SetBridgeFeeRateErr(caller, newRate) ==
    IF ~HasRole(bridgeRoles, DEFAULT_ADMIN_ROLE, caller)
    THEN "AccessControlUnauthorizedAccount"
    ELSE IF newRate > MaxBridgeFeeRate THEN "Fee too high"
    ELSE "ok"

SetBridgeFeeRate(caller, newRate) ==
    /\ SetBridgeFeeRateErr(caller, newRate) = "ok"
    /\ bridgeFeeRate' = newRate
    /\ last' = CallWith("setBridgeFeeRate", 0, <<newRate>>)
    /\ UNCHANGED <<balances, now, escrowVars, engineVars, badgeVars, chainConfigs,
                   processedMessages, liquidityPool, bridgeRoles, applied, rejected, relayVars,
                   pendingTransfers>>

(* deactivateChain *)
DeactivateChain(caller, chainSelector) ==
    /\ HasRole(bridgeRoles, DEFAULT_ADMIN_ROLE, caller)
    /\ chainConfigs[chainSelector].isActive
    /\ chainConfigs' = [chainConfigs EXCEPT ![chainSelector].isActive = FALSE]
    /\ last' = Call("deactivateChain", chainSelector)
    /\ UNCHANGED <<balances, now, escrowVars, engineVars, badgeVars,
                   processedMessages, liquidityPool, bridgeRoles, applied, rejected, relayVars, sendVars>>

(* what a delivery that reverts leaves of processedMessages: the write of *)
(* the flag is rolled back with everything else                           *)
ProcessedAfterRevertKeepingFlag(processed, messageId) == processed \cup {messageId}

ProcessedAfterRevert(processed, messageId) == processed

(* a delivery that reverts: nothing is written, the flag of the message id *)
(* included                                                                *)
CcipReceiveReverts(m) ==
    /\ CcipReceiveErr(m) # "ok"
    /\ processedMessages' = ProcessedAfterRevert(processedMessages, m.messageId)
    /\ rejected' = IF CcipReceiveErr(m) = ReplayErr(processedMessages, m.messageId)
                   THEN rejected
                   ELSE rejected \cup {<<m.messageId, CcipReceiveErr(m)>>}
    /\ last' = [CallWith("ccipReceive", m.messageId, <<m>>) EXCEPT
                    !.err = CcipReceiveErr(m)]
    /\ UNCHANGED <<balances, now, escrowVars, engineVars, badgeVars, chainConfigs,
                   liquidityPool, bridgeRoles, applied, sendVars, relayVars>>

-----------------------------------------------------------------------------
(* VeritasCrossChainBridge: reputation bridging *)

(* getReputation, the three values syncReputation reads *)
GetReputation(reps, user) ==
    [totalTrades |-> reps[user].totalTrades,
     successfulTrades |-> reps[user].successfulTrades,
     averageRating |-> CalculateAverageRating(reps, user)]

SyncPayloadOfAverage(reps, user) ==
    LET r == GetReputation(reps, user)
    IN  [trades |-> r.successfulTrades,
         points |-> r.averageRating,
         count |-> r.successfulTrades]

(* abi.encode(successfulTrades, averageRating * successfulTrades, *)
(* successfulTrades)                                              *)
SyncPayloadOf(reps, user) ==
    LET r == GetReputation(reps, user)
    IN  [trades |-> r.successfulTrades,
         points |-> r.averageRating * r.successfulTrades,
         count |-> r.successfulTrades]

ReputationSyncMessage(reps, user) ==
    [messageType |-> "ReputationSync", sender |-> user, recipient |-> user,
     amount |-> 0, data |-> SyncPayloadOf(reps, user)]

(* syncReputation; the router accepts the message and is paid its LINK fee *)
SyncReputationErr(caller, destinationChain) ==
    IF ~chainConfigs[destinationChain].isActive THEN "UnsupportedChain" ELSE "ok"

SyncReputation(caller, destinationChain) ==
    /\ SyncReputationErr(caller, destinationChain) = "ok"
    /\ Len(sentSyncs) < MaxSyncs
    /\ sentSyncs' = Append(sentSyncs,
            [destinationChain |-> destinationChain,
             receiver |-> chainConfigs[destinationChain].bridgeContract,
             data |-> ReputationSyncMessage(userReputations, caller)])
    /\ last' = CallWith("syncReputation", destinationChain, <<caller>>)
    /\ UNCHANGED <<balances, now, escrowVars, engineVars, badgeVars, chainConfigs,
                   processedMessages, liquidityPool, bridgeRoles, applied, rejected,
                   sendVars, remoteReputations, remoteProcessed, inFlight>>

SyncReputationReverts(caller, destinationChain) ==
    /\ SyncReputationErr(caller, destinationChain) # "ok"
    /\ last' = [CallWith("syncReputation", destinationChain, <<caller>>) EXCEPT
                    !.err = SyncReputationErr(caller, destinationChain)]
    /\ UNCHANGED <<balances, now, escrowVars, engineVars, badgeVars, bridgeVars>>

(* The ledger of chain 1 runs the same contracts.  Its escrow records a *)
(* trade in its engine (rateBuyer, recordTrade):                         *)
RemoteRecordTrade(seller, buyer, sellerRating, buyerRating) ==
    /\ sellerRating >= MinRating /\ sellerRating <= MaxRating
    /\ buyerRating >= MinRating /\ buyerRating <= MaxRating
    /\ remoteReputations[seller].totalTrades < MaxRemoteTrades
    /\ remoteReputations' = RecordTradeReps(remoteReputations, seller, buyer,
                                            sellerRating, buyerRating)
    /\ last' = CallWith("remote.recordTrade", 0, <<seller, buyer>>)
    /\ UNCHANGED <<balances, now, escrowVars, engineVars, badgeVars, chainConfigs,
                   processedMessages, liquidityPool, bridgeRoles, applied, rejected,
                   sendVars, sentSyncs, remoteProcessed, inFlight>>

(* its bridge runs syncReputation for a user, to this ledger; the router *)
(* gives every message an id of its own:                                 *)
RemoteSyncReputation(user) ==
    /\ Cardinality(inFlight) < Len(RouterMessageIds)
    /\ inFlight' = inFlight \cup
          {[messageId |-> RouterMessageIds[Cardinality(inFlight) + 1],
            sourceChainSelector |-> 1, sender |-> RemoteBridge,
            data |-> ReputationSyncMessage(remoteReputations, user)]}
    /\ last' = CallWith("remote.syncReputation", 0, <<user>>)
    /\ UNCHANGED <<balances, now, escrowVars, engineVars, badgeVars, chainConfigs,
                   processedMessages, liquidityPool, bridgeRoles, applied, rejected,
                   sendVars, sentSyncs, remoteReputations, remoteProcessed>>

(* and the router delivers it a message this ledger sent to chain 1: *)
(* _ccipReceive, _handleReputationSync, syncCrossChainReputation     *)
RemoteCcipReceive(i) ==
    LET message == sentSyncs[i].data
    IN  /\ i \notin remoteProcessed
        /\ sentSyncs[i].destinationChain = 1
        /\ sentSyncs[i].receiver = RemoteBridge
        /\ remoteProcessed' = remoteProcessed \cup {i}
        /\ remoteReputations' = SyncReps(remoteReputations, message.sender,
                                         message.data.trades, message.data.points,
                                         message.data.count)
        /\ last' = CallWith("remote.ccipReceive", i, <<message>>)
        /\ UNCHANGED <<balances, now, escrowVars, engineVars, badgeVars, chainConfigs,
                       processedMessages, liquidityPool, bridgeRoles, applied,
                       rejected, sendVars, sentSyncs, inFlight>>

-----------------------------------------------------------------------------
(* VeritasEscrow *)

NoTrade == [buyer |-> ZERO, seller |-> ZERO, paymentToken |-> ZERO, amount |-> 0,
            platformFee |-> 0, expiresAt |-> 0, deliveredAt |-> 0,
            status |-> "None", buyerRating |-> 0, sellerRating |-> 0]

NoDispute == [initiator |-> ZERO, buyerEvidence |-> "", sellerEvidence |-> "",
              winner |-> ZERO, isResolved |-> FALSE]

NothingPaid == [payout |-> 0, fee |-> 0, refund |-> 0, calls |-> 0]

Terminal == {"Completed", "Cancelled", "Expired", "Resolved"}
Active == {"Created", "SellerAccepted", "Delivered", "Disputed"}

CalculateFeeInitialRate(amount) == (amount * InitialFeeRate) \div BASIS_POINTS

CalculateFee(amount) == (amount * platformFeeRate) \div BASIS_POINTS

SellerAmountNoFee(trade) == trade.amount

SellerAmount(trade) == trade.amount - trade.platformFee

WinnerAmountLessFee(trade, winner) == trade.amount - trade.platformFee

WinnerAmount(trade, winner) ==
    IF winner = trade.seller THEN trade.amount - trade.platformFee ELSE trade.amount

(* safeTransfer out of the escrow: the balances after it, and what of it *)
(* came back to the escrow itself.                                       *)
Stray(to, amount) == IF to = Escrow THEN amount ELSE 0

(* createTrade; the buyer's allowance to the escrow is taken as granted *)
CreateTradeErr(caller, seller, paymentToken, amount) ==
    IF paused THEN "EnforcedPause"
    ELSE IF paymentToken \notin supportedTokens THEN "TokenNotSupported"
    ELSE IF amount = 0 THEN "InsufficientAmount"
    ELSE IF seller = ZERO \/ seller = caller THEN "InvalidTrade"
    ELSE IF balances[paymentToken][caller] < amount THEN "ERC20InsufficientBalance"
    ELSE "ok"

CreateTrade(caller, seller, paymentToken, amount, expiryDuration) ==
    LET tradeId == tradeNonce + 1
        expiry == now + (IF expiryDuration > 0 THEN expiryDuration
                         ELSE DefaultExpiryDuration)
    IN  /\ tradeId \in TradeIds
        /\ CreateTradeErr(caller, seller, paymentToken, amount) = "ok"
        /\ tradeNonce' = tradeNonce + 1
        /\ trades' = [trades EXCEPT ![tradeId] =
                [buyer |-> caller, seller |-> seller, paymentToken |-> paymentToken,
                 amount |-> amount, platformFee |-> CalculateFee(amount),
                 expiresAt |-> expiry, deliveredAt |-> 0, status |-> "Created",
                 buyerRating |-> 0, sellerRating |-> 0]]
        /\ balances' = Transfer(balances, paymentToken, caller, Escrow, amount)
        /\ userReputations' = EnsureRegistered(EnsureRegistered(userReputations, caller), seller)
        /\ last' = Call("createTrade", tradeId)
        /\ UNCHANGED <<now, guardVars, disputes, feeRecipient, platformFeeRate, supportedTokens,
                       paused, disputeWindow, autoReleaseDelay, escrowRoles, paid,
                       strayInflow, processedCrossChainUpdates, tierThresholds,
                       engineRoles, recorded, userTradeHistory, badgeVars, bridgeVars>>

AcceptTradeErrNoExpiry(caller, tradeId) ==
    IF trades[tradeId].status # "Created" THEN "InvalidStatus"
    ELSE IF caller # trades[tradeId].seller THEN "Unauthorized"
    ELSE "ok"

AcceptTradeErr(caller, tradeId) ==
    LET trade == trades[tradeId]
    IN  IF trade.status # "Created" THEN "InvalidStatus"
        ELSE IF caller # trade.seller THEN "Unauthorized"
        ELSE IF now > trade.expiresAt THEN "InvalidTrade"
        ELSE "ok"

AcceptTrade(caller, tradeId) ==
    /\ AcceptTradeErr(caller, tradeId) = "ok"
    /\ trades' = [trades EXCEPT ![tradeId].status = "SellerAccepted"]
    /\ last' = CallWith("acceptTrade", tradeId, <<caller>>)
    /\ UNCHANGED <<balances, now, guardVars, disputes, tradeNonce, feeRecipient, platformFeeRate,
                   supportedTokens, paused, disputeWindow, autoReleaseDelay,
                   escrowRoles, paid, strayInflow, engineVars, badgeVars, bridgeVars>>

MarkDeliveredErrAnyone(caller, tradeId) ==
    IF trades[tradeId].status # "SellerAccepted" THEN "InvalidStatus" ELSE "ok"

MarkDeliveredErr(caller, tradeId) ==
    LET trade == trades[tradeId]
    IN  IF trade.status # "SellerAccepted" THEN "InvalidStatus"
        ELSE IF caller # trade.seller THEN "Unauthorized"
        ELSE "ok"

MarkDelivered(caller, tradeId) ==
    /\ MarkDeliveredErr(caller, tradeId) = "ok"
    /\ trades' = [trades EXCEPT ![tradeId].status = "Delivered",
                                ![tradeId].deliveredAt = now]
    /\ last' = CallWith("markDelivered", tradeId, <<caller>>)
    /\ UNCHANGED <<balances, now, guardVars, disputes, tradeNonce, feeRecipient, platformFeeRate,
                   supportedTokens, paused, disputeWindow, autoReleaseDelay,
                   escrowRoles, paid, strayInflow, engineVars, badgeVars, bridgeVars>>

(* The two transfers of a release: amount - platformFee to the seller, *)
(* platformFee to the fee recipient.                                   *)
ReleaseBalances(trade) ==
    Transfer(Transfer(balances, trade.paymentToken, Escrow, trade.seller, SellerAmount(trade)),
             trade.paymentToken, Escrow, feeRecipient, trade.platformFee)

ReleaseErr(trade) ==
    IF balances[trade.paymentToken][Escrow] < trade.amount
    THEN "ERC20InsufficientBalance" ELSE "ok"

Release(tradeId) ==
    LET trade == trades[tradeId]
    IN  /\ balances' = ReleaseBalances(trade)
        /\ paid' = [paid EXCEPT ![tradeId].payout = @ + SellerAmount(trade),
                                ![tradeId].fee = @ + trade.platformFee,
                                ![tradeId].calls = @ + 1]
        /\ strayInflow' = [strayInflow EXCEPT ![trade.paymentToken] =
                @ + Stray(trade.seller, SellerAmount(trade))
                  + Stray(feeRecipient, trade.platformFee)]

ConfirmDeliveryErrAfterDispute(caller, tradeId, sellerRating) ==
    LET trade == trades[tradeId]
    IN  IF trade.status \notin {"Delivered", "Disputed"} THEN "InvalidStatus"
        ELSE IF caller # trade.buyer THEN "Unauthorized"
        ELSE IF sellerRating < MinRating \/ sellerRating > MaxRating THEN "InvalidRating"
        ELSE ReleaseErr(trade)

ConfirmDeliveryErrAnyRating(caller, tradeId, sellerRating) ==
    IF trades[tradeId].status # "Delivered" THEN "InvalidStatus"
    ELSE IF caller # trades[tradeId].buyer THEN "Unauthorized"
    ELSE ReleaseErr(trades[tradeId])

ConfirmDeliveryErr(caller, tradeId, sellerRating) ==
    LET trade == trades[tradeId]
    IN  IF trade.status # "Delivered" THEN "InvalidStatus"
        ELSE IF caller # trade.buyer THEN "Unauthorized"
        ELSE IF sellerRating < MinRating \/ sellerRating > MaxRating THEN "InvalidRating"
        ELSE ReleaseErr(trade)

ConfirmDelivery(caller, tradeId, sellerRating) ==
    /\ ConfirmDeliveryErr(caller, tradeId, sellerRating) = "ok"
    /\ trades' = [trades EXCEPT ![tradeId].status = "Completed",
                                ![tradeId].buyerRating = sellerRating]
    /\ Release(tradeId)
    /\ last' = CallWith("confirmDelivery", tradeId, <<sellerRating, caller>>)
    /\ UNCHANGED <<now, guardVars, disputes, tradeNonce, feeRecipient, platformFeeRate,
                   supportedTokens, paused, disputeWindow, autoReleaseDelay,
                   escrowRoles, engineVars, badgeVars, bridgeVars>>

RateBuyerErrRepeatable(caller, tradeId, buyerRating) ==
    LET trade == trades[tradeId]
    IN  IF trade.status # "Completed" THEN "InvalidStatus"
        ELSE IF caller # trade.seller THEN "Unauthorized"
        ELSE IF buyerRating < MinRating \/ buyerRating > MaxRating THEN "InvalidRating"
        ELSE "ok"

RateBuyerErr(caller, tradeId, buyerRating) ==
    LET trade == trades[tradeId]
    IN  IF trade.status # "Completed" THEN "InvalidStatus"
        ELSE IF caller # trade.seller THEN "Unauthorized"
        ELSE IF buyerRating < MinRating \/ buyerRating > MaxRating THEN "InvalidRating"
        ELSE IF trade.sellerRating # 0 THEN "AlreadyRated"
        ELSE IF trade.buyerRating # 0
        THEN RecordTradeErr(engineRoles, Escrow, trade.buyerRating, buyerRating)
        ELSE "ok"

RateBuyerEffects(caller, tradeId, buyerRating) ==
    LET trade == trades[tradeId]
        reps == RecordTradeReps(userReputations, trade.seller, trade.buyer,
                                trade.buyerRating, buyerRating)
        bs == RecordTradeBadges(reps, tierThresholds, badgeRoles, BadgeState,
                                trade.seller, trade.buyer)
    IN  /\ RateBuyerErr(caller, tradeId, buyerRating) = "ok"
        /\ trades' = [trades EXCEPT ![tradeId].sellerRating = buyerRating]
        /\ IF trade.buyerRating # 0
           THEN /\ userReputations' = reps
                /\ recorded' = CountRecording(recorded, tradeId)
                /\ userTradeHistory' =
                      RecordTradeHistory(userTradeHistory, tradeId, trade.seller,
                                         trade.buyer, trade.buyerRating, buyerRating)
                /\ WriteBadges(bs)
           ELSE UNCHANGED <<userReputations, recorded, userTradeHistory, userBadges, userHighestTier,
                            tokenIdCounter, owners, badgeMetadata>>
        /\ last' = CallWith("rateBuyer", tradeId, <<buyerRating, caller>>)
        /\ UNCHANGED <<balances, now, disputes, tradeNonce, feeRecipient,
                       platformFeeRate, supportedTokens, paused, disputeWindow,
                       autoReleaseDelay, escrowRoles, paid, strayInflow,
                       processedCrossChainUpdates, tierThresholds, engineRoles,
                       badgeRoles, bridgeVars>>

(* rateBuyer, returned: the guard status is as before the call *)
RateBuyer(caller, tradeId, buyerRating) ==
    /\ RateBuyerEffects(caller, tradeId, buyerRating)
    /\ UNCHANGED guardVars

(* The refund of a cancelled or expired trade: the whole amount to the buyer. *)
RefundAmountLessFee(trade) == trade.amount - trade.platformFee

RefundAmount(trade) == trade.amount

RefundErr(trade) ==
    IF balances[trade.paymentToken][Escrow] < RefundAmount(trade)
    THEN "ERC20InsufficientBalance" ELSE "ok"

Refund(tradeId) ==
    LET trade == trades[tradeId]
    IN  /\ balances' = Transfer(balances, trade.paymentToken, Escrow, trade.buyer,
                                RefundAmount(trade))
        /\ paid' = [paid EXCEPT ![tradeId].refund = @ + RefundAmount(trade),
                                ![tradeId].calls = @ + 1]
        /\ strayInflow' = [strayInflow EXCEPT ![trade.paymentToken] =
                @ + Stray(trade.buyer, RefundAmount(trade))]

CancelTradeErrAnyStatus(caller, tradeId) ==
    IF caller # trades[tradeId].buyer THEN "Unauthorized"
    ELSE IF trades[tradeId].status \notin Active THEN "InvalidStatus"
    ELSE RefundErr(trades[tradeId])

CancelTradeErr(caller, tradeId) ==
    LET trade == trades[tradeId]
    IN  IF caller # trade.buyer THEN "Unauthorized"
        ELSE IF trade.status # "Created" THEN "InvalidStatus"
        ELSE RefundErr(trade)

CancelTradeEffects(caller, tradeId) ==
    /\ CancelTradeErr(caller, tradeId) = "ok"
    /\ trades' = [trades EXCEPT ![tradeId].status = "Cancelled"]
    /\ Refund(tradeId)
    /\ last' = CallWith("cancelTrade", tradeId, <<caller>>)
    /\ UNCHANGED <<now, disputes, tradeNonce, feeRecipient, platformFeeRate,
                   supportedTokens, paused, disputeWindow, autoReleaseDelay,
                   escrowRoles, engineVars, badgeVars, bridgeVars>>

(* cancelTrade, returned: nonReentrant has reset the guard status *)
CancelTrade(caller, tradeId) ==
    /\ CancelTradeEffects(caller, tradeId)
    /\ UNCHANGED guardVars

ClaimExpiredTradeErrAtDeadline(caller, tradeId) ==
    LET trade == trades[tradeId]
    IN  IF trade.status # "Created" /\ trade.status # "SellerAccepted" THEN "InvalidStatus"
        ELSE IF now < trade.expiresAt THEN "TradeNotExpired"
        ELSE RefundErr(trade)

ClaimExpiredTradeErrNoStatus(caller, tradeId) ==
    IF trades[tradeId].status = "None" THEN "InvalidStatus"
    ELSE IF now <= trades[tradeId].expiresAt THEN "TradeNotExpired"
    ELSE RefundErr(trades[tradeId])

ClaimExpiredTradeErr(caller, tradeId) ==
    LET trade == trades[tradeId]
    IN  IF trade.status # "Created" /\ trade.status # "SellerAccepted" THEN "InvalidStatus"
        ELSE IF now <= trade.expiresAt THEN "TradeNotExpired"
        ELSE RefundErr(trade)

ClaimExpiredTradeEffects(caller, tradeId) ==
    /\ ClaimExpiredTradeErr(caller, tradeId) = "ok"
    /\ trades' = [trades EXCEPT ![tradeId].status = "Expired"]
    /\ Refund(tradeId)
    /\ last' = CallWith("claimExpiredTrade", tradeId, <<caller>>)
    /\ UNCHANGED <<now, disputes, tradeNonce, feeRecipient, platformFeeRate,
                   supportedTokens, paused, disputeWindow, autoReleaseDelay,
                   escrowRoles, engineVars, badgeVars, bridgeVars>>

(* claimExpiredTrade, returned: nonReentrant has reset the guard status *)
ClaimExpiredTrade(caller, tradeId) ==
    /\ ClaimExpiredTradeEffects(caller, tradeId)
    /\ UNCHANGED guardVars

AutoReleaseErrBuyerOnly(caller, tradeId) ==
    IF trades[tradeId].status # "Delivered" THEN "InvalidStatus"
    ELSE IF caller # trades[tradeId].buyer THEN "Unauthorized"
    ELSE IF now < trades[tradeId].deliveredAt + autoReleaseDelay THEN "InvalidTrade"
    ELSE ReleaseErr(trades[tradeId])

AutoReleaseErrLate(caller, tradeId) ==
    IF trades[tradeId].status # "Delivered" THEN "InvalidStatus"
    ELSE IF now <= trades[tradeId].deliveredAt + autoReleaseDelay THEN "InvalidTrade"
    ELSE ReleaseErr(trades[tradeId])

AutoReleaseErr(caller, tradeId) ==
    LET trade == trades[tradeId]
    IN  IF trade.status # "Delivered" THEN "InvalidStatus"
        ELSE IF trade.deliveredAt + autoReleaseDelay > MaxUint THEN "Panic"
        ELSE IF now < trade.deliveredAt + autoReleaseDelay THEN "InvalidTrade"
        ELSE ReleaseErr(trade)

AutoRelease(caller, tradeId) ==
    /\ AutoReleaseErr(caller, tradeId) = "ok"
    /\ trades' = [trades EXCEPT ![tradeId].status = "Completed",
                                ![tradeId].buyerRating = AutoReleaseRating]
    /\ Release(tradeId)
    /\ last' = CallWith("autoRelease", tradeId, <<caller>>)
    /\ UNCHANGED <<now, guardVars, disputes, tradeNonce, feeRecipient, platformFeeRate,
                   supportedTokens, paused, disputeWindow, autoReleaseDelay,
                   escrowRoles, engineVars, badgeVars, bridgeVars>>

RaiseDisputeErrEarly(caller, tradeId) ==
    IF trades[tradeId].status # "Delivered" THEN "InvalidStatus"
    ELSE IF caller # trades[tradeId].buyer /\ caller # trades[tradeId].seller
    THEN "Unauthorized"
    ELSE IF now >= trades[tradeId].deliveredAt + disputeWindow THEN "DisputeWindowClosed"
    ELSE "ok"

RaiseDisputeErr(caller, tradeId) ==
    LET trade == trades[tradeId]
    IN  IF trade.status # "Delivered" THEN "InvalidStatus"
        ELSE IF caller # trade.buyer /\ caller # trade.seller THEN "Unauthorized"
        ELSE IF now > trade.deliveredAt + disputeWindow THEN "DisputeWindowClosed"
        ELSE "ok"

RaiseDispute(caller, tradeId) ==
    /\ RaiseDisputeErr(caller, tradeId) = "ok"
    /\ trades' = [trades EXCEPT ![tradeId].status = "Disputed"]
    /\ disputes' = [disputes EXCEPT ![tradeId] =
            [initiator |-> caller,
             buyerEvidence |-> IF caller = trades[tradeId].buyer THEN FirstEvidence ELSE "",
             sellerEvidence |-> IF caller = trades[tradeId].seller THEN FirstEvidence ELSE "",
             winner |-> ZERO, isResolved |-> FALSE]]
    /\ last' = CallWith("raiseDispute", tradeId, <<caller>>)
    /\ UNCHANGED <<balances, now, guardVars, tradeNonce, feeRecipient, platformFeeRate,
                   supportedTokens, paused, disputeWindow, autoReleaseDelay,
                   escrowRoles, paid, strayInflow, engineVars, badgeVars, bridgeVars>>

SubmitEvidenceErr(caller, tradeId) ==
    LET trade == trades[tradeId]
    IN  IF trade.status # "Disputed" THEN "InvalidStatus"
        ELSE IF caller # trade.buyer /\ caller # trade.seller THEN "Unauthorized"
        ELSE "ok"

SubmitEvidence(caller, tradeId, evidence) ==
    /\ SubmitEvidenceErr(caller, tradeId) = "ok"
    /\ disputes' = IF caller = trades[tradeId].buyer
                   THEN [disputes EXCEPT ![tradeId].buyerEvidence = evidence]
                   ELSE [disputes EXCEPT ![tradeId].sellerEvidence = evidence]
    /\ last' = CallWith("submitEvidence", tradeId, <<caller, evidence>>)
    /\ UNCHANGED <<balances, now, guardVars, trades, tradeNonce, feeRecipient, platformFeeRate,
                   supportedTokens, paused, disputeWindow, autoReleaseDelay,
                   escrowRoles, paid, strayInflow, engineVars, badgeVars, bridgeVars>>

(* resolveDispute ends with reputationEngine.recordDisputeResolution, called *)
(* by the escrow contract: the engine checks its own DISPUTE_RESOLVER_ROLE   *)
(* against the escrow's address.                                             *)
ResolveDisputeErr(caller, tradeId, winner) ==
    LET trade == trades[tradeId]
    IN  IF ~HasRole(escrowRoles, DISPUTE_RESOLVER_ROLE, caller)
        THEN "AccessControlUnauthorizedAccount"
        ELSE IF trade.status # "Disputed" THEN "InvalidStatus"
        ELSE IF winner # trade.buyer /\ winner # trade.seller THEN "InvalidTrade"
        ELSE IF balances[trade.paymentToken][Escrow] < trade.amount
        THEN "ERC20InsufficientBalance"
        ELSE RecordDisputeResolutionErr(engineRoles, Escrow)

ResolveDispute(caller, tradeId, winner) ==
    LET trade == trades[tradeId]
        winnerAmount == WinnerAmount(trade, winner)
        loser == IF winner = trade.buyer THEN trade.seller ELSE trade.buyer
        toWinner == Transfer(balances, trade.paymentToken, Escrow, winner, winnerAmount)
    IN  /\ ResolveDisputeErr(caller, tradeId, winner) = "ok"
        /\ trades' = [trades EXCEPT ![tradeId].status = "Resolved"]
        /\ disputes' = [disputes EXCEPT ![tradeId].winner = winner,
                                        ![tradeId].isResolved = TRUE]
        /\ IF winner = trade.seller
           THEN /\ balances' = Transfer(toWinner, trade.paymentToken, Escrow,
                                        feeRecipient, trade.platformFee)
                /\ paid' = [paid EXCEPT ![tradeId].payout = @ + winnerAmount,
                                        ![tradeId].fee = @ + trade.platformFee,
                                        ![tradeId].calls = @ + 1]
                /\ strayInflow' = [strayInflow EXCEPT ![trade.paymentToken] =
                        @ + Stray(winner, winnerAmount)
                          + Stray(feeRecipient, trade.platformFee)]
           ELSE /\ balances' = toWinner
                /\ paid' = [paid EXCEPT ![tradeId].payout = @ + winnerAmount,
                                        ![tradeId].calls = @ + 1]
                /\ strayInflow' = [strayInflow EXCEPT ![trade.paymentToken] =
                        @ + Stray(winner, winnerAmount)]
        /\ userReputations' = RecordDisputeResolutionReps(userReputations, winner, loser)
        /\ last' = CallWith("resolveDispute", tradeId, <<caller, winner>>)
        /\ UNCHANGED <<now, guardVars, tradeNonce, feeRecipient, platformFeeRate, supportedTokens,
                       paused, disputeWindow, autoReleaseDelay, escrowRoles,
                       processedCrossChainUpdates, tierThresholds, engineRoles,
                       recorded, userTradeHistory, badgeVars, bridgeVars>>

UpdateFeeRecipientErr(caller) ==
    IF ~HasRole(escrowRoles, DEFAULT_ADMIN_ROLE, caller)
    THEN "AccessControlUnauthorizedAccount" ELSE "ok"

UpdateFeeRecipient(caller, newRecipient) ==
    /\ UpdateFeeRecipientErr(caller) = "ok"
    /\ newRecipient # feeRecipient
    /\ feeRecipient' = newRecipient
    /\ last' = Call("updateFeeRecipient", 0)
    /\ UNCHANGED <<balances, now, guardVars, trades, disputes, tradeNonce, platformFeeRate,
                   supportedTokens, paused, disputeWindow, autoReleaseDelay,
                   escrowRoles, paid, strayInflow, engineVars, badgeVars, bridgeVars>>

AddSupportedTokenErr(caller) ==
    IF ~HasRole(escrowRoles, DEFAULT_ADMIN_ROLE, caller)
    THEN "AccessControlUnauthorizedAccount" ELSE "ok"

AddSupportedToken(caller, token) ==
    /\ AddSupportedTokenErr(caller) = "ok"
    /\ token \notin supportedTokens
    /\ supportedTokens' = supportedTokens \cup {token}
    /\ last' = Call("addSupportedToken", 0)
    /\ UNCHANGED <<balances, now, guardVars, trades, disputes, tradeNonce, feeRecipient,
                   platformFeeRate, paused, disputeWindow, autoReleaseDelay,
                   escrowRoles, paid, strayInflow, engineVars, badgeVars, bridgeVars>>

RemoveSupportedToken(caller, token) ==
    /\ AddSupportedTokenErr(caller) = "ok"
    /\ token \in supportedTokens
    /\ supportedTokens' = supportedTokens \ {token}
    /\ last' = Call("removeSupportedToken", 0)
    /\ UNCHANGED <<balances, now, guardVars, trades, disputes, tradeNonce, feeRecipient,
                   platformFeeRate, paused, disputeWindow, autoReleaseDelay,
                   escrowRoles, paid, strayInflow, engineVars, badgeVars, bridgeVars>>

(* pause: onlyRole(PAUSER_ROLE), then whenNotPaused of _pause *)
PauseErr(caller) ==
    IF ~HasRole(escrowRoles, PAUSER_ROLE, caller) THEN "AccessControlUnauthorizedAccount"
    ELSE IF paused THEN "EnforcedPause"
    ELSE "ok"

Pause(caller) ==
    /\ PauseErr(caller) = "ok"
    /\ paused' = TRUE
    /\ last' = Call("pause", 0)
    /\ UNCHANGED <<balances, now, guardVars, trades, disputes, tradeNonce, feeRecipient,
                   platformFeeRate, supportedTokens, disputeWindow, autoReleaseDelay,
                   escrowRoles, paid, strayInflow, engineVars, badgeVars, bridgeVars>>

(* a call that reverts: nothing is written *)
Reverted(op, id, err, args) ==
    /\ err # "ok"
    /\ last' = [op |-> op, id |-> id, err |-> err, args |-> args]
    /\ UNCHANGED <<balances, now, escrowVars, engineVars, badgeVars, bridgeVars>>

ConfirmDeliveryReverts(caller, tradeId, sellerRating) ==
    Reverted("confirmDelivery", tradeId,
             ConfirmDeliveryErr(caller, tradeId, sellerRating), <<sellerRating, caller>>)

RateBuyerReverts(caller, tradeId, buyerRating) ==
    Reverted("rateBuyer", tradeId,
             RateBuyerErr(caller, tradeId, buyerRating), <<buyerRating, caller>>)

RaiseDisputeReverts(caller, tradeId) ==
    Reverted("raiseDispute", tradeId, RaiseDisputeErr(caller, tradeId), <<caller>>)

AutoReleaseReverts(caller, tradeId) ==
    Reverted("autoRelease", tradeId, AutoReleaseErr(caller, tradeId), <<caller>>)

AcceptTradeReverts(caller, tradeId) ==
    Reverted("acceptTrade", tradeId, AcceptTradeErr(caller, tradeId), <<caller>>)

MarkDeliveredReverts(caller, tradeId) ==
    Reverted("markDelivered", tradeId, MarkDeliveredErr(caller, tradeId), <<caller>>)

CancelTradeReverts(caller, tradeId) ==
    Reverted("cancelTrade", tradeId, CancelTradeErr(caller, tradeId), <<caller>>)

ClaimExpiredTradeReverts(caller, tradeId) ==
    Reverted("claimExpiredTrade", tradeId, ClaimExpiredTradeErr(caller, tradeId), <<caller>>)

SubmitEvidenceReverts(caller, tradeId) ==
    Reverted("submitEvidence", tradeId, SubmitEvidenceErr(caller, tradeId), <<caller>>)

ResolveDisputeReverts(caller, tradeId, winner) ==
    Reverted("resolveDispute", tradeId, ResolveDisputeErr(caller, tradeId, winner),
             <<caller, winner>>)

UpdateFeeRateErr(caller, newFeeRate) ==
    IF ~HasRole(escrowRoles, DEFAULT_ADMIN_ROLE, caller)
    THEN "AccessControlUnauthorizedAccount"
    ELSE IF newFeeRate > MAX_FEE_RATE THEN "Fee too high"
    ELSE "ok"

UpdateFeeRateRepricing(caller, newFeeRate) ==
    /\ UpdateFeeRateErr(caller, newFeeRate) = "ok"
    /\ newFeeRate # platformFeeRate
    /\ platformFeeRate' = newFeeRate
    /\ trades' = [id \in TradeIds |->
                    IF trades[id].status \in Active
                    THEN [trades[id] EXCEPT
                            !.platformFee = (trades[id].amount * newFeeRate) \div BASIS_POINTS]
                    ELSE trades[id]]
    /\ last' = CallWith("updateFeeRate", 0, <<newFeeRate>>)
    /\ UNCHANGED <<balances, now, guardVars, disputes, tradeNonce, feeRecipient,
                   supportedTokens, paused, disputeWindow, autoReleaseDelay,
                   escrowRoles, paid, strayInflow, engineVars, badgeVars, bridgeVars>>

UpdateFeeRate(caller, newFeeRate) ==
    /\ UpdateFeeRateErr(caller, newFeeRate) = "ok"
    /\ newFeeRate # platformFeeRate
    /\ platformFeeRate' = newFeeRate
    /\ last' = CallWith("updateFeeRate", 0, <<newFeeRate>>)
    /\ UNCHANGED <<balances, now, guardVars, trades, disputes, tradeNonce, feeRecipient,
                   supportedTokens, paused, disputeWindow, autoReleaseDelay,
                   escrowRoles, paid, strayInflow, engineVars, badgeVars, bridgeVars>>

UpdateAutoReleaseDelayErr(caller) ==
    IF ~HasRole(escrowRoles, DEFAULT_ADMIN_ROLE, caller)
    THEN "AccessControlUnauthorizedAccount" ELSE "ok"

UpdateAutoReleaseDelay(caller, newDelay) ==
    /\ UpdateAutoReleaseDelayErr(caller) = "ok"
    /\ newDelay # autoReleaseDelay
    /\ autoReleaseDelay' = newDelay
    /\ last' = CallWith("updateAutoReleaseDelay", 0, <<newDelay>>)
    /\ UNCHANGED <<balances, now, guardVars, trades, disputes, tradeNonce, feeRecipient,
                   platformFeeRate, supportedTokens, paused, disputeWindow,
                   escrowRoles, paid, strayInflow, engineVars, badgeVars, bridgeVars>>

(* AccessControl.grantRole on the ReputationEngine *)
GrantEngineRoleErr(caller) ==
    IF ~HasRole(engineRoles, DEFAULT_ADMIN_ROLE, caller)
    THEN "AccessControlUnauthorizedAccount" ELSE "ok"

GrantEngineRole(caller, role, account) ==
    /\ GrantEngineRoleErr(caller) = "ok"
    /\ <<role, account>> \notin engineRoles
    /\ engineRoles' = engineRoles \cup {<<role, account>>}
    /\ last' = Call("grantRole", 0)
    /\ UNCHANGED <<balances, now, escrowVars, userReputations,
                   processedCrossChainUpdates, tierThresholds, recorded, userTradeHistory, badgeVars,
                   bridgeVars>>

(* AccessControl.revokeRole on the ReputationEngine *)
RevokeEngineRole(caller, role, account) ==
    /\ GrantEngineRoleErr(caller) = "ok"
    /\ <<role, account>> \in engineRoles
    /\ engineRoles' = engineRoles \ {<<role, account>>}
    /\ last' = Call("revokeRole", 0)
    /\ UNCHANGED <<balances, now, escrowVars, userReputations,
                   processedCrossChainUpdates, tierThresholds, recorded, userTradeHistory, badgeVars,
                   bridgeVars>>

(* block.timestamp moves on *)
Tick(step) ==
    /\ now + step <= MaxTime
    /\ now' = now + step
    /\ last' = Call("tick", 0)
    /\ UNCHANGED <<balances, escrowVars, engineVars, badgeVars, bridgeVars>>

-----------------------------------------------------------------------------
(* The state after deployment and role configuration *)

InitialThresholds ==
    [tier \in 1..5 |->
        CASE tier = Bronze -> [minTrades |-> 10, minRating |-> 400]
          [] tier = Silver -> [minTrades |-> 25, minRating |-> 450]
          [] tier = Gold -> [minTrades |-> 50, minRating |-> 480]
          [] tier = Platinum -> [minTrades |-> 100, minRating |-> 490]
          [] tier = Diamond -> [minTrades |-> 250, minRating |-> 495]]

InitialEscrowRoles ==
    {<<DEFAULT_ADMIN_ROLE, Owner>>, <<DISPUTE_RESOLVER_ROLE, Owner>>,
     <<PAUSER_ROLE, Owner>>, <<DISPUTE_RESOLVER_ROLE, Resolver>>}

InitialEngineRoles ==
    {<<DEFAULT_ADMIN_ROLE, Owner>>, <<ESCROW_ROLE, Escrow>>,
     <<CROSS_CHAIN_ROLE, Bridge>>}

InitialBadgeRoles ==
    {<<DEFAULT_ADMIN_ROLE, Owner>>, <<MINTER_ROLE, Owner>>,
     <<URI_SETTER_ROLE, Owner>>, <<MINTER_ROLE, Engine>>}

InitialBridgeRoles ==
    {<<DEFAULT_ADMIN_ROLE, Owner>>, <<OPERATOR_ROLE, Owner>>}

Init ==
    /\ balances = [token \in Tokens |->
                     [a \in Holders |-> IF a \in Users THEN InitialUserBalance ELSE 0]]
    /\ now = 0
    /\ trades = [id \in TradeIds |-> NoTrade]
    /\ disputes = [id \in TradeIds |-> NoDispute]
    /\ tradeNonce = 0
    /\ feeRecipient = Owner
    /\ platformFeeRate = InitialFeeRate
    /\ supportedTokens = {USDC}
    /\ paused = FALSE
    /\ guardStatus = NOT_ENTERED
    /\ executing = NoCall
    /\ disputeWindow = InitialDisputeWindow
    /\ autoReleaseDelay = InitialAutoReleaseDelay
    /\ escrowRoles = InitialEscrowRoles
    /\ userReputations = [u \in Users |-> NoReputation]
    /\ processedCrossChainUpdates = {}
    /\ tierThresholds = InitialThresholds
    /\ engineRoles = InitialEngineRoles
    /\ recorded = [id \in TradeIds |-> 0]
    /\ userTradeHistory = [u \in Users |-> <<>>]
    /\ userBadges = [u \in Users |-> [tier \in 1..5 |-> 0]]
    /\ userHighestTier = [u \in Users |-> None]
    /\ tokenIdCounter = 0
    /\ owners = <<>>
    /\ badgeMetadata = <<>>
    /\ badgeRoles = InitialBadgeRoles
    /\ chainConfigs = [c \in ChainSelectors |-> NoChain]
    /\ processedMessages = {}
    /\ liquidityPool = [c \in ChainSelectors |-> 0]
    /\ bridgeRoles = InitialBridgeRoles
    /\ bridgeFeeRate = InitialBridgeFeeRate
    /\ pendingTransfers = <<>>
    /\ paid = [id \in TradeIds |-> NothingPaid]
    /\ strayInflow = [token \in Tokens |-> 0]
    /\ applied = [id \in MessageIds |-> 0]
    /\ rejected = {}
    /\ sentSyncs = <<>>
    /\ remoteReputations = [u \in Users |-> NoReputation]
    /\ remoteProcessed = {}
    /\ inFlight = {}
    /\ last = Call("deploy", 0)

-----------------------------------------------------------------------------
(* The trade ledger with the reputation engine behind it *)

Next ==
    \/ \E caller \in Buyers, seller \in Users, token \in Tokens, amount \in Amounts,
          d \in ExpiryDurations :
          CreateTrade(caller, seller, token, amount, d)
    \/ \E caller \in Callers, id \in TradeIds : AcceptTrade(caller, id)
    \/ \E caller \in Callers, id \in TradeIds : MarkDelivered(caller, id)
    \/ \E caller \in Callers, id \in TradeIds, r \in Ratings : ConfirmDelivery(caller, id, r)
    \/ \E caller \in Callers, id \in TradeIds, r \in Ratings : RateBuyer(caller, id, r)
    \/ \E caller \in Callers, id \in TradeIds : CancelTrade(caller, id)
    \/ \E caller \in Callers, id \in TradeIds : ClaimExpiredTrade(caller, id)
    \/ \E caller \in Callers, id \in TradeIds : AutoRelease(caller, id)
    \/ \E caller \in Callers, id \in TradeIds : RaiseDispute(caller, id)
    \/ \E caller \in Callers, id \in TradeIds, winner \in Users :
          ResolveDispute(caller, id, winner)
    \/ \E caller \in Callers : GrantEngineRole(caller, DISPUTE_RESOLVER_ROLE, Escrow)
    \/ \E step \in TickSteps : Tick(step)

Spec == Init /\ [][Next]_vars

(* The same, with the owner's changes of the fee recipient, the escrow's *)
(* own address among them                                                *)
NextCustody ==
    \/ Next
    \/ \E caller \in Callers, to \in FeeRecipients : UpdateFeeRecipient(caller, to)

SpecCustody == Init /\ [][NextCustody]_vars

-----------------------------------------------------------------------------
(* The reputation engine and the badge registry under their own callers: *)
(* the escrow and the bridge as role holders, the owner as admin and     *)
(* minter                                                                *)

NextReputation ==
    \/ \E caller \in EngineCallers, user \in Subjects, p \in SyncPayloads,
          m \in MessageIds :
          SyncCrossChainReputation(caller, user, p, SyncId(m, 1, user))
    \/ \E caller \in EngineCallers, id \in TradeIds, r \in RecordRatings :
          RecordTrade(caller, id, "bob", "alice", MaxRating, r)
    \/ \E caller \in EngineCallers, tier \in ThresholdTiers, t \in ThresholdUpdates :
          UpdateTierThreshold(caller, tier, t.minTrades, t.minRating)
    \/ \E caller \in EngineCallers, to \in Subjects, tier \in MintTiers :
          MintBadge(caller, to, tier)
    \/ \E caller \in EngineCallers, holder \in Subjects, tier \in MintTiers :
          UpgradeBadge(caller, holder, tier)
    \/ \E caller \in EngineCallers : GrantBadgeRole(caller, MINTER_ROLE, Badge)

SpecReputation == Init /\ [][NextReputation]_vars

-----------------------------------------------------------------------------
(* The bridge on the receiving side: the admin configures the route of *)
(* chain 1, a provider funds the bridge, the router delivers messages  *)

NextRelay ==
    \/ \E caller \in Callers : ConfigureChain(caller, 1, RemoteBridge)
    \/ \E caller \in Subjects : AddLiquidity(caller, 1, LiquidityStep)
    \/ \E m \in Messages : CcipReceive(m)
    \/ \E m \in Messages : CcipReceiveReverts(m)

SpecRelay == Init /\ [][NextRelay]_vars

-----------------------------------------------------------------------------
(* The badge registry alone: minters and everybody else mint, transfer and *)
(* approve                                                                 *)

NextBadge ==
    \/ \E caller \in BadgeCallers, to \in Recipients, tier \in BadgeTiers :
          MintBadge(caller, to, tier)
    \/ \E caller \in BadgeCallers, to \in Recipients, tier \in BadgeTiers :
          MintBadgeReverts(caller, to, tier)
    \/ \E caller \in BadgeCallers, from \in Users, to \in Recipients,
          tokenId \in TokenIds : TransferFrom(caller, from, to, tokenId)
    \/ \E caller \in BadgeCallers, to \in Users, tokenId \in TokenIds :
          Approve(caller, to, tokenId)
    \/ \E caller \in BadgeCallers, operator \in Users, approved \in BOOLEAN :
          SetApprovalForAll(caller, operator, approved)

SpecBadge == Init /\ [][NextBadge]_vars

-----------------------------------------------------------------------------
(* The reputation engine while the admin of the badge registry takes the *)
(* engine's MINTER_ROLE away and gives it back                           *)

NextIsolation ==
    \/ \E caller \in EngineCallers, user \in Subjects, p \in SyncPayloads,
          m \in MessageIds :
          SyncCrossChainReputation(caller, user, p, SyncId(m, 1, user))
    \/ \E caller \in EngineCallers, id \in TradeIds, r \in RecordRatings :
          RecordTrade(caller, id, "bob", "alice", MaxRating, r)
    \/ \E caller \in EngineCallers : RevokeBadgeRole(caller, MINTER_ROLE, Engine)
    \/ \E caller \in EngineCallers : GrantBadgeRole(caller, MINTER_ROLE, Engine)

SpecIsolation == Init /\ [][NextIsolation]_vars

-----------------------------------------------------------------------------
(* One trade, created at time 0, followed day by day: the calls that *)
(* revert are recorded with their error                              *)

NextTrade ==
    \/ \E caller \in Buyers, amount \in Amounts, d \in ExpiryDurations :
          now = 0 /\ tradeNonce = 0 /\ CreateTrade(caller, "bob", USDC, amount, d)
    \/ \E caller \in Users : AcceptTrade(caller, 1)
    \/ \E caller \in Users : MarkDelivered(caller, 1)
    \/ \E caller \in Users, r \in RatingInputs : ConfirmDelivery(caller, 1, r)
    \/ \E caller \in Users, r \in RatingInputs : ConfirmDeliveryReverts(caller, 1, r)
    \/ \E caller \in Users, r \in RatingInputs : RateBuyer(caller, 1, r)
    \/ \E caller \in Users, r \in RatingInputs : RateBuyerReverts(caller, 1, r)
    \/ \E caller \in Callers : RaiseDispute(caller, 1)
    \/ \E caller \in Callers : RaiseDisputeReverts(caller, 1)
    \/ \E caller \in Callers : AutoRelease(caller, 1)
    \/ \E caller \in Callers : AutoReleaseReverts(caller, 1)
    \/ \E caller \in Callers, rate \in FeeRates : UpdateFeeRate(caller, rate)
    \/ \E step \in FineSteps : Tick(step)

SpecTrade == Init /\ [][NextTrade]_vars

-----------------------------------------------------------------------------
(* Sums over the trades *)

RECURSIVE SumAmounts(_, _)
SumAmounts(ids, token) ==
    IF ids = {} THEN 0
    ELSE LET id == CHOOSE x \in ids : TRUE
             held == IF trades[id].status \in Active /\ trades[id].paymentToken = token
                     THEN trades[id].amount ELSE 0
         IN  held + SumAmounts(ids \ {id}, token)

-----------------------------------------------------------------------------
(* C1: fund conservation.  For every trade in a terminal status the tokens *)
(* the escrow transferred for it (payout to the seller or dispute winner,  *)
(* platform fee to the fee recipient, refund to the buyer) sum to exactly  *)
(* the trade's amount and were paid by exactly one operation; a trade that *)
(* is not terminal has had nothing paid out.                               *)
FundConservation ==
    \A id \in TradeIds :
        LET trade == trades[id]
            p == paid[id]
        IN  /\ trade.status \in Terminal =>
                  /\ p.payout + p.fee + p.refund = trade.amount
                  /\ p.calls = 1
            /\ trade.status \notin Terminal => p = NothingPaid

FundConservationWitness ==
    /\ trades[1].status = "Resolved" /\ paid[1].fee > 0
    /\ trades[2].status = "Completed" /\ paid[2].payout > 0
    /\ last.op = "rateBuyer"

(* C2: with the roles as deployed (the resolver holds the escrow's         *)
(* DISPUTE_RESOLVER_ROLE, the escrow holds only ESCROW_ROLE on the engine) *)
(* resolveDispute(tradeId, buyer) by the resolver on a Disputed trade      *)
(* succeeds.                                                               *)
ResolveForBuyerSucceeds ==
    \A id \in TradeIds :
        (/\ trades[id].status = "Disputed"
         /\ engineRoles = InitialEngineRoles
         /\ escrowRoles = InitialEscrowRoles)
        => /\ ResolveDisputeErr(Resolver, id, trades[id].buyer) = "ok"
           /\ ENABLED ResolveDispute(Resolver, id, trades[id].buyer)

(* C3: monotonic status.  Once a trade is Completed, Cancelled, Expired or *)
(* Resolved, no step changes its status.                                   *)
MonotonicStatus ==
    [][\A id \in TradeIds :
          trades[id].status \in Terminal => trades'[id].status = trades[id].status]_vars

MonotonicStatusWitness ==
    /\ trades[1].status = "Completed"
    /\ last.op = "rateBuyer"
    /\ last.id = 1
    /\ trades[2].status = "Expired"
    /\ now = MaxTime

(* C4: the status graph.  Every status change is one of the listed edges,  *)
(* made by the operation of that edge on that trade, and each operation    *)
(* called on a trade in any other status (a trade id that does not exist   *)
(* is in status None) ends in an error.                                    *)
StatusEdges ==
    {<<"None", "Created", "createTrade">>,
     <<"Created", "SellerAccepted", "acceptTrade">>,
     <<"SellerAccepted", "Delivered", "markDelivered">>,
     <<"Delivered", "Completed", "confirmDelivery">>,
     <<"Delivered", "Completed", "autoRelease">>,
     <<"Delivered", "Disputed", "raiseDispute">>,
     <<"Disputed", "Resolved", "resolveDispute">>,
     <<"Created", "Cancelled", "cancelTrade">>,
     <<"Created", "Expired", "claimExpiredTrade">>,
     <<"SellerAccepted", "Expired", "claimExpiredTrade">>}

StatusesOf(op) == {e[1] : e \in {x \in StatusEdges : x[3] = op}}

FailsOutside(op, id, err) == trades[id].status \notin StatusesOf(op) => err # "ok"

WrongStatusFails ==
    \A id \in TradeIds, caller \in Callers :
        /\ FailsOutside("acceptTrade", id, AcceptTradeErr(caller, id))
        /\ FailsOutside("markDelivered", id, MarkDeliveredErr(caller, id))
        /\ \A r \in Ratings :
              FailsOutside("confirmDelivery", id, ConfirmDeliveryErr(caller, id, r))
        /\ FailsOutside("autoRelease", id, AutoReleaseErr(caller, id))
        /\ FailsOutside("raiseDispute", id, RaiseDisputeErr(caller, id))
        /\ \A winner \in Users :
              FailsOutside("resolveDispute", id, ResolveDisputeErr(caller, id, winner))
        /\ FailsOutside("cancelTrade", id, CancelTradeErr(caller, id))
        /\ FailsOutside("claimExpiredTrade", id, ClaimExpiredTradeErr(caller, id))

StatusGraph ==
    [][/\ \A id \in TradeIds :
            trades'[id].status # trades[id].status =>
                /\ <<trades[id].status, trades'[id].status, last'.op>> \in StatusEdges
                /\ last'.id = id
       /\ WrongStatusFails]_vars

StatusGraphWitness ==
    /\ trades[1].status = "Expired"
    /\ trades[2].status = "Resolved"
    /\ last.op = "claimExpiredTrade" /\ last.id = 1
    /\ AcceptTradeErr(trades[1].seller, 1) = "InvalidStatus"

(* C5: custody.  The escrow's balance of each payment token is the sum of  *)
(* the amounts of the trades in that token that are Created,               *)
(* SellerAccepted, Delivered or Disputed, plus the tokens that reached the *)
(* escrow other than through createTrade (none, under the claim's          *)
(* assumption); createTrade raises the balance by exactly the amount.      *)
CustodyAt(token) ==
    /\ balances[token][Escrow] = SumAmounts(TradeIds, token) + strayInflow[token]
    /\ strayInflow[token] = 0 => balances[token][Escrow] = SumAmounts(TradeIds, token)

Custody ==
    [][\A token \in Tokens :
          /\ CustodyAt(token)
          /\ CustodyAt(token)'
          /\ last'.op = "createTrade" /\ trades'[last'.id].paymentToken = token
                => balances'[token][Escrow]
                      = balances[token][Escrow] + trades'[last'.id].amount]_vars

CustodyWitness ==
    /\ strayInflow[USDC] = 0
    /\ trades[1].status = "Completed"
    /\ trades[2].status = "Disputed"
    /\ trades[1].amount # trades[2].amount
    /\ balances[USDC][Escrow] = trades[2].amount

(* C7: syncCrossChainReputation is idempotent per syncId. A call whose     *)
(* syncId is already processed does not revert and changes no state; a    *)
(* call with a fresh syncId adds its payload to the user's counters once  *)
(* and marks the syncId processed.                                        *)
SyncOnce ==
    [][last'.op = "syncCrossChainReputation" =>
        LET syncId == last'.id
            user == last'.args[1]
            p == last'.args[2]
            before == EnsureRegistered(userReputations, user)[user]
            after == userReputations'[user]
        IN  /\ last'.err = "ok"
            /\ syncId \in processedCrossChainUpdates'
            /\ IF syncId \in processedCrossChainUpdates
               THEN UNCHANGED <<balances, now, escrowVars, engineVars, badgeVars,
                                bridgeVars>>
               ELSE /\ after.totalTrades = before.totalTrades + p.trades
                    /\ after.successfulTrades = before.successfulTrades + p.trades
                    /\ after.totalRatingPoints = before.totalRatingPoints + p.points
                    /\ after.ratingCount = before.ratingCount + p.count]_vars

(* the last call carried five more trades under a processed syncId and the *)
(* counters still show the ten of the first call                           *)
SyncOnceWitness ==
    /\ last.op = "syncCrossChainReputation"
    /\ last.args[2].trades = 5
    /\ processedCrossChainUpdates = {last.id}
    /\ userReputations["alice"].totalTrades = 10
    /\ userReputations["alice"].ratingCount = 10
    /\ \A id \in TradeIds : recorded[id] = 0

(* C9: a user's highest tier never decreases, whatever is minted after it *)
(* and however the rating moves.                                          *)
TierMonotone ==
    [][\A u \in Users : userHighestTier'[u] >= userHighestTier[u]]_vars

(* a Bronze badge minted after a Silver one, to a user whose average rating *)
(* is below the Bronze threshold                                            *)
TierMonotoneWitness ==
    /\ last.op = "mintBadge"
    /\ last.id = Bronze
    /\ userBadges["alice"][Bronze] > userBadges["alice"][Silver]
    /\ userBadges["alice"][Silver] > 0
    /\ userHighestTier["alice"] = Silver
    /\ userReputations["alice"].ratingCount > 0
    /\ CalculateAverageRating(userReputations, "alice") < tierThresholds[Bronze].minRating

TierRaised(u) == userHighestTier'[u] > userHighestTier[u]

ThresholdMetAfter(u) ==
    LET th == tierThresholds[userHighestTier'[u]]
    IN  /\ userReputations'[u].successfulTrades >= th.minTrades
        /\ CalculateAverageRating(userReputations', u) >= th.minRating

(* C10 as stated: whenever a user's highest tier is raised to T, the user's *)
(* successful trades and average rating meet T's thresholds at that moment. *)
TierRaisedOnlyIfMet ==
    [][\A u \in Users : TierRaised(u) => ThresholdMetAfter(u)]_vars

EngineOps == {"recordTrade", "rateBuyer", "syncCrossChainReputation", "ccipReceive"}

(* C10: whenever an operation of the ReputationEngine (recordTrade, reached *)
(* from rateBuyer, or syncCrossChainReputation, reached from an inbound     *)
(* message) raises a user's highest tier to T, the user's successful trades *)
(* and average rating meet T's thresholds at that moment; every other raise *)
(* is a mintBadge or upgradeBadge by a holder of MINTER_ROLE.               *)
EngineRaisesOnlyIfMet ==
    [][\A u \in Users : TierRaised(u) =>
          IF last'.op \in EngineOps THEN ThresholdMetAfter(u)
          ELSE last'.op \in {"mintBadge", "upgradeBadge"}]_vars

(* the engine has just minted Silver on a sync that brought the user to *)
(* twenty-five trades                                                   *)
EngineRaisesOnlyIfMetWitness ==
    /\ last.op = "syncCrossChainReputation"
    /\ userHighestTier["alice"] = Silver
    /\ userBadges["alice"][Silver] = tokenIdCounter
    /\ userReputations["alice"].successfulTrades = 25

Delivered == last'.op = "ccipReceive"

NothingWritten ==
    UNCHANGED <<balances, now, escrowVars, engineVars, badgeVars, chainConfigs,
                processedMessages, liquidityPool, bridgeRoles, applied, sendVars,
                relayVars>>

(* C6: each inbound message id is applied at most once; a delivery of an id *)
(* that was already applied fails with MessageAlreadyProcessed and changes  *)
(* no state.                                                                *)
AppliedOnce ==
    [][/\ \A id \in MessageIds : applied'[id] <= 1
       /\ \A id \in MessageIds : applied'[id] = 1 <=> id \in processedMessages'
       /\ Delivered /\ last'.id \in processedMessages =>
             last'.err = "MessageAlreadyProcessed" /\ NothingWritten]_vars

(* a token transfer from the configured bridge, which the funded bridge could *)
(* pay, delivered again under the id it was applied with                      *)
AppliedOnceWitness ==
    /\ last.op = "ccipReceive"
    /\ last.err = "MessageAlreadyProcessed"
    /\ applied[last.id] = 1
    /\ last.args[1].data.messageType = "TokenTransfer"
    /\ last.args[1].sender = chainConfigs[last.args[1].sourceChainSelector].bridgeContract
    /\ balances[USDC]["bob"] = InitialUserBalance + last.args[1].data.amount
    /\ balances[USDC][Bridge] >= last.args[1].data.amount

WrongSource(m) == m.sender # chainConfigs[m.sourceChainSelector].bridgeContract

(* C8 as stated: a message is applied only if its sender is the bridge      *)
(* configured for its source chain; one from a chain with no route, or from *)
(* another sender, fails with InvalidMessageSource and has no effect.       *)
WrongSourceFailsInvalidSource ==
    [][Delivered =>
        LET m == last'.args[1]
        IN  /\ last'.err = "ok" => ~WrongSource(m)
            /\ WrongSource(m) =>
                  last'.err = "InvalidMessageSource" /\ NothingWritten]_vars

(* C8: a message is applied only if its sender is the bridge configured for *)
(* its source chain. One from a chain with no route, or from another sender *)
(* on a configured chain, has no effect: it fails with InvalidMessageSource *)
(* when its id is fresh and with MessageAlreadyProcessed when its id was    *)
(* already applied, the replay check being the first one made.              *)
SourceAuthenticated ==
    [][Delivered =>
        LET m == last'.args[1]
        IN  /\ last'.err = "ok" => ~WrongSource(m)
            /\ WrongSource(m) =>
                  /\ last'.err = IF m.messageId \in processedMessages
                                 THEN "MessageAlreadyProcessed"
                                 ELSE "InvalidMessageSource"
                  /\ NothingWritten]_vars

(* a token transfer the funded bridge could pay, from another sender on the *)
(* configured chain, refused; and the chain without a route refuses the     *)
(* configured bridge of chain 1                                             *)
SourceAuthenticatedWitness ==
    /\ last.op = "ccipReceive"
    /\ last.err = "InvalidMessageSource"
    /\ last.args[1].sourceChainSelector = 1
    /\ last.args[1].sender = Mallory
    /\ chainConfigs[1].bridgeContract = RemoteBridge
    /\ last.args[1].data.messageType = "TokenTransfer"
    /\ balances[USDC][Bridge] >= last.args[1].data.amount
    /\ CcipReceiveErr([last.args[1] EXCEPT !.sourceChainSelector = 2,
                                           !.sender = RemoteBridge])
          = "InvalidMessageSource"

BadgesOf(own, meta, u, tier) ==
    {id \in 1..Len(own) : own[id] = u /\ meta[id].tier = tier}

(* C11: each user holds at most one badge per tier; mintBadge for a (user, *)
(* tier) pair that already has a badge fails, with BadgeAlreadyExists when *)
(* the caller is a minter, and mintBadge with tier None or the zero        *)
(* address fails, each time without a new token and with userBadges and    *)
(* userHighestTier as they were.                                           *)
BadgeUnique ==
    [][/\ \A u \in Users, tier \in 1..5 :
             Cardinality(BadgesOf(owners', badgeMetadata', u, tier)) <= 1
       /\ last'.op = "mintBadge" =>
             LET to == last'.args[1]
                 tier == last'.id
                 held == to # ZERO /\ tier # None /\ userBadges[to][tier] # 0
             IN  /\ to = ZERO \/ tier = None \/ held =>
                       /\ last'.err # "ok"
                       /\ NothingWritten
                 /\ held /\ last'.err # "AccessControlUnauthorizedAccount" =>
                       last'.err = "BadgeAlreadyExists"
                 /\ last'.err = "ok" =>
                       /\ Len(owners') = Len(owners) + 1
                       /\ BadgesOf(owners', badgeMetadata', to, tier) = {Len(owners')}]_vars

(* a minter's second Bronze for a user who holds Bronze and Silver, refused *)
BadgeUniqueWitness ==
    /\ last.op = "mintBadge"
    /\ last.err = "BadgeAlreadyExists"
    /\ last.id = Bronze
    /\ last.args[1] = "alice"
    /\ Len(owners) = 2
    /\ userBadges["alice"][Bronze] = 2
    /\ userBadges["alice"][Silver] = 1
    /\ userHighestTier["alice"] = Silver

Minted == 1..Len(owners)

OwnersKept == \A id \in Minted : id \in 1..Len(owners') /\ owners'[id] = owners[id]

ApprovalsFail ==
    /\ last'.op \in {"approve", "setApprovalForAll"} =>
          last'.err = "SoulboundTokenNonTransferable" /\ NothingWritten
    /\ \A id \in Minted : LockedErr(id) = "ok" /\ Locked(id)

(* C12 as stated: the owner of a minted badge never changes; every        *)
(* transferFrom, approve and setApprovalForAll by any caller fails with   *)
(* SoulboundTokenNonTransferable; locked is true for every minted token.  *)
EveryTransferFailsSoulbound ==
    [][/\ OwnersKept
       /\ ApprovalsFail
       /\ last'.op = "transferFrom" /\ last'.id \in Minted =>
             last'.err = "SoulboundTokenNonTransferable" /\ NothingWritten]_vars

(* C12: the owner of a minted badge never changes; every approve and       *)
(* setApprovalForAll, and every transferFrom of a minted badge to a        *)
(* recipient other than the zero address, fails with                       *)
(* SoulboundTokenNonTransferable whoever calls; a transferFrom to the zero *)
(* address fails too, refused by the ERC721 base as an invalid receiver;   *)
(* locked is true for every minted token.                                  *)
Soulbound ==
    [][/\ OwnersKept
       /\ ApprovalsFail
       /\ last'.op = "transferFrom" /\ last'.id \in Minted =>
             /\ last'.err = IF last'.args[2] = ZERO THEN "ERC721InvalidReceiver"
                            ELSE "SoulboundTokenNonTransferable"
             /\ NothingWritten]_vars

(* the holder's own transfer of its badge to another user, refused *)
SoulboundWitness ==
    /\ last.op = "transferFrom"
    /\ last.err = "SoulboundTokenNonTransferable"
    /\ last.id \in Minted
    /\ last.args[1] = owners[last.id]
    /\ last.args[2] \in Users \ {owners[last.id]}
    /\ Len(owners) = 2

CountersAfterSync ==
    LET user == last'.args[1]
        p == last'.args[2]
        before == EnsureRegistered(userReputations, user)[user]
        after == userReputations'[user]
    IN  last'.id \notin processedCrossChainUpdates =>
           /\ after.totalTrades = before.totalTrades + p.trades
           /\ after.successfulTrades = before.successfulTrades + p.trades
           /\ after.totalRatingPoints = before.totalRatingPoints + p.points
           /\ after.ratingCount = before.ratingCount + p.count

CountersAfterRecord ==
    \A i \in 1..2 :
        LET user == last'.args[i]
            before == EnsureRegistered(userReputations, user)[user]
            after == userReputations'[user]
        IN  /\ after.totalTrades = before.totalTrades + 1
            /\ after.successfulTrades = before.successfulTrades + 1
            /\ after.ratingCount = before.ratingCount + 1
            /\ after.totalRatingPoints >= before.totalRatingPoints + MinRating

EngineMayMint == <<MINTER_ROLE, Engine>> \in badgeRoles

(* C13: recordTrade and syncCrossChainReputation succeed and commit their *)
(* counter updates whether or not the badge registry accepts the mint     *)
(* they attempt; while the engine lacks MINTER_ROLE every attempt is      *)
(* rejected, the registry stays as it was and the operation still goes    *)
(* through.                                                               *)
MintFailureIsolated ==
    [][/\ last'.op = "syncCrossChainReputation" =>
             last'.err = "ok" /\ CountersAfterSync
       /\ last'.op = "recordTrade" =>
             /\ last'.err = "ok"
             /\ CountersAfterRecord
             /\ recorded'[last'.id] = recorded[last'.id] + 1
       /\ last'.op \in {"syncCrossChainReputation", "recordTrade"} /\ ~EngineMayMint =>
             UNCHANGED <<userBadges, userHighestTier, tokenIdCounter, owners,
                         badgeMetadata>>]_vars

(* a sync has just brought a user without badges to twenty-five trades at *)
(* 460, Silver's thresholds, while the engine may not mint                *)
MintFailureIsolatedWitness ==
    /\ last.op = "syncCrossChainReputation"
    /\ ~EngineMayMint
    /\ userReputations["alice"].successfulTrades = 25
    /\ CalculateAverageRating(userReputations, "alice") = 460
    /\ userHighestTier["alice"] = None
    /\ tokenIdCounter = 0
    /\ last.id \in processedCrossChainUpdates

OutOfRange(rating) == rating < 100 \/ rating > 500

StoredRatings(trade) == {trade.buyerRating, trade.sellerRating} \ {0}

(* C14: confirmDelivery and rateBuyer fail for every rating below 100 or   *)
(* above 500, with InvalidRating once the status and the caller are right, *)
(* and leave the trade, the ratings and the funds as they were; every      *)
(* non-zero rating stored on a trade is within [100, 500].                 *)
RatingBounds ==
    [][/\ last'.op \in {"confirmDelivery", "rateBuyer"} /\ OutOfRange(last'.args[1]) =>
             LET trade == trades[last'.id]
                 caller == last'.args[2]
                 expected == IF last'.op = "confirmDelivery"
                             THEN trade.status = "Delivered" /\ caller = trade.buyer
                             ELSE trade.status = "Completed" /\ caller = trade.seller
             IN  /\ last'.err # "ok"
                 /\ expected => last'.err = "InvalidRating"
                 /\ NothingWritten
       /\ \A id \in TradeIds : \A r \in StoredRatings(trades'[id]) : ~OutOfRange(r)]_vars

(* the seller's rating of 501 refused on a trade the buyer completed with *)
(* 100, after the buyer's own 99 was refused                              *)
RatingBoundsWitness ==
    /\ last.op = "rateBuyer"
    /\ last.args[1] = 501
    /\ last.err = "InvalidRating"
    /\ trades[1].status = "Completed"
    /\ trades[1].buyerRating = 100
    /\ trades[1].sellerRating = 0
    /\ ConfirmDeliveryErr(trades[1].buyer, 1, 99) # "ok"

(* C15: on a Delivered trade, raiseDispute by the buyer or the seller       *)
(* succeeds while now <= deliveredAt + disputeWindow; from                  *)
(* deliveredAt + disputeWindow + 1 on it fails with DisputeWindowClosed,    *)
(* the trade stays Delivered and no Dispute record is created.              *)
DisputeWindow ==
    [][last'.op = "raiseDispute" =>
          LET trade == trades[last'.id]
              caller == last'.args[1]
          IN  trade.status = "Delivered" /\ caller \in {trade.buyer, trade.seller} =>
                /\ now <= trade.deliveredAt + disputeWindow =>
                      /\ last'.err = "ok"
                      /\ trades'[last'.id].status = "Disputed"
                      /\ disputes'[last'.id].initiator = caller
                /\ now >= trade.deliveredAt + disputeWindow + 1 =>
                      /\ last'.err = "DisputeWindowClosed"
                      /\ trades'[last'.id] = trade
                      /\ disputes'[last'.id] = NoDispute
                      /\ NothingWritten]_vars

(* the seller is refused one day after the window closed *)
DisputeWindowWitness ==
    /\ last.op = "raiseDispute"
    /\ last.err = "DisputeWindowClosed"
    /\ last.args[1] = trades[1].seller
    /\ trades[1].status = "Delivered"
    /\ now = trades[1].deliveredAt + disputeWindow + 1
    /\ disputes[1] = NoDispute

(* the buyer's dispute accepted on the last day of the window *)
DisputeOnLastDayWitness ==
    /\ last.op = "raiseDispute"
    /\ last.err = "ok"
    /\ last.args[1] = trades[1].buyer
    /\ trades[1].status = "Disputed"
    /\ now = trades[1].deliveredAt + disputeWindow

(* C16: autoRelease on a Delivered trade fails at every time before         *)
(* deliveredAt + autoReleaseDelay; at that time and later it succeeds for   *)
(* any caller: the trade becomes Completed, the seller receives             *)
(* amount - platformFee, the fee recipient platformFee, and the recorded    *)
(* buyer-given rating is 500.                                               *)
AutoReleaseTiming ==
    [][last'.op = "autoRelease" /\ trades[last'.id].status = "Delivered" =>
          LET trade == trades[last'.id]
              token == trade.paymentToken
          IN  IF now < trade.deliveredAt + autoReleaseDelay
              THEN last'.err # "ok" /\ NothingWritten
              ELSE /\ last'.err = "ok"
                   /\ trades'[last'.id].status = "Completed"
                   /\ trades'[last'.id].buyerRating = 500
                   /\ IF trade.seller # feeRecipient
                      THEN /\ balances'[token][trade.seller] =
                                 balances[token][trade.seller] + trade.amount - trade.platformFee
                           /\ balances'[token][feeRecipient] =
                                 balances[token][feeRecipient] + trade.platformFee
                      ELSE balances'[token][trade.seller] =
                                 balances[token][trade.seller] + trade.amount]_vars

(* a release by someone who is no party to the trade, on the first day it *)
(* is allowed                                                             *)
AutoReleaseTimingWitness ==
    /\ last.op = "autoRelease"
    /\ last.err = "ok"
    /\ last.args[1] \notin {trades[1].buyer, trades[1].seller}
    /\ now = trades[1].deliveredAt + autoReleaseDelay
    /\ trades[1].status = "Completed"
    /\ trades[1].buyerRating = 500
    /\ trades[1].sellerRating = 0

(* C17: the platform fee of a trade is amount * platformFeeRate / 10000,   *)
(* computed with the rate in force at createTrade and kept afterwards;     *)
(* confirmDelivery transfers amount - platformFee to the seller and        *)
(* platformFee to the fee recipient. Amounts are in tenths of a unit, so   *)
(* 100 units are 1000: at 250 bps the fee is 25 (2.5 units) and the seller *)
(* receives 975 (97.5 units).                                              *)
FeeSplit ==
    [][/\ last'.op = "createTrade" =>
             LET created == trades'[last'.id]
             IN  /\ created.platformFee = (created.amount * platformFeeRate) \div 10000
                 /\ created.amount = 1000 /\ platformFeeRate = 250 =>
                       created.platformFee = 25
       /\ \A id \in TradeIds : trades[id].status # "None" =>
             /\ trades'[id].platformFee = trades[id].platformFee
             /\ trades'[id].amount = trades[id].amount
       /\ last'.op = "confirmDelivery" /\ last'.err = "ok" =>
             LET trade == trades[last'.id]
                 token == trade.paymentToken
                 toSeller == balances'[token][trade.seller] - balances[token][trade.seller]
                 toRecipient == balances'[token][feeRecipient] - balances[token][feeRecipient]
             IN  /\ trade.seller # feeRecipient =>
                       /\ toSeller = trade.amount - trade.platformFee
                       /\ toRecipient = trade.platformFee
                 /\ trade.seller # feeRecipient /\ trade.amount = 1000
                       /\ trade.platformFee = 25 => toSeller = 975]_vars

(* 100 units created at 250 bps and confirmed after the rate was raised to *)
(* 500 bps: the seller holds 97.5 units more, the fee recipient 2.5        *)
FeeSplitWitness ==
    /\ last.op = "confirmDelivery"
    /\ last.err = "ok"
    /\ platformFeeRate = 500
    /\ trades[1].amount = 1000
    /\ trades[1].platformFee = 25
    /\ balances[trades[1].paymentToken][trades[1].seller] = InitialUserBalance + 975
    /\ balances[trades[1].paymentToken][feeRecipient] = 25

(* Two trades between the two users, either of them buying, rated with *)
(* values whose sums do not divide evenly                               *)
NextRating ==
    \/ \E caller \in Users, seller \in Users, amount \in Amounts :
          CreateTrade(caller, seller, USDC, amount, 0)
    \/ \E caller \in Users, id \in TradeIds : AcceptTrade(caller, id)
    \/ \E caller \in Users, id \in TradeIds : MarkDelivered(caller, id)
    \/ \E caller \in Users, id \in TradeIds, r \in MixedRatings :
          ConfirmDelivery(caller, id, r)
    \/ \E caller \in Users, id \in TradeIds, r \in MixedRatings : RateBuyer(caller, id, r)

SpecRating == Init /\ [][NextRating]_vars

CountedOnce(before, after, rating) ==
    /\ after.totalTrades = before.totalTrades + 1
    /\ after.successfulTrades = before.successfulTrades + 1
    /\ after.ratingCount = before.ratingCount + 1
    /\ after.totalRatingPoints = before.totalRatingPoints + rating

(* C18: confirmDelivery(r1) by the buyer stores r1 as the rating the buyer *)
(* gave; the rateBuyer(r2) by the seller that follows raises the seller's  *)
(* totalTrades, successfulTrades and ratingCount by 1 and the seller's     *)
(* rating points by r1, and the buyer's by 1 and by r2; a user's average   *)
(* rating is points / count with integer division, 0 when count is 0.      *)
ReputationAttribution ==
    [][/\ last'.op = "confirmDelivery" /\ last'.err = "ok" =>
             /\ trades'[last'.id].buyerRating = last'.args[1]
             /\ userReputations' = userReputations
       /\ last'.op = "rateBuyer" /\ last'.err = "ok" =>
             LET trade == trades[last'.id]
             IN  /\ trade.buyerRating # 0
                 /\ CountedOnce(userReputations[trade.seller],
                                userReputations'[trade.seller], trade.buyerRating)
                 /\ CountedOnce(userReputations[trade.buyer],
                                userReputations'[trade.buyer], last'.args[1])
       /\ \A user \in Users :
             LET rep == userReputations'[user]
                 average == CalculateAverageRating(userReputations', user)
             IN  /\ rep.ratingCount = 0 => average = 0
                 /\ rep.ratingCount > 0 =>
                       /\ average * rep.ratingCount <= rep.totalRatingPoints
                       /\ rep.totalRatingPoints < (average + 1) * rep.ratingCount]_vars

(* the buyer gave 100 and was given 425 *)
ReputationAttributionWitness ==
    /\ last.op = "rateBuyer"
    /\ last.err = "ok"
    /\ last.args[1] = 425
    /\ trades[1].buyerRating = 100
    /\ userReputations[trades[1].seller].totalRatingPoints = 100
    /\ userReputations[trades[1].seller].ratingCount = 1
    /\ userReputations[trades[1].buyer].totalRatingPoints = 425
    /\ CalculateAverageRating(userReputations, trades[1].seller) = 100

(* 100 and 425 received over two trades average 262, not 262.5 *)
AverageRoundsDownWitness ==
    \E user \in Users :
        /\ userReputations[user].ratingCount = 2
        /\ userReputations[user].totalRatingPoints = 525
        /\ CalculateAverageRating(userReputations, user) = 262

(* The bridge's reputation syncs for one user, with payloads that land on *)
(* and next to the tier thresholds                                        *)
NextTier ==
    \E user \in Subjects, p \in TierPayloads, m \in TierSyncIds :
        SyncCrossChainReputation(Bridge, user, p, SyncId(m, 1, user))

SpecTier == Init /\ [][NextTier]_vars

ClaimedThresholds ==
    <<[minTrades |-> 10, minRating |-> 400], [minTrades |-> 25, minRating |-> 450],
      [minTrades |-> 50, minRating |-> 480], [minTrades |-> 100, minRating |-> 490],
      [minTrades |-> 250, minRating |-> 495]>>

TiersMet(tradeCount, rating) ==
    {tier \in 1..5 : /\ tradeCount >= ClaimedThresholds[tier].minTrades
                     /\ rating >= ClaimedThresholds[tier].minRating}

HighestTierMet(tradeCount, rating) ==
    IF TiersMet(tradeCount, rating) = {} THEN 0
    ELSE CHOOSE tier \in TiersMet(tradeCount, rating) :
            \A other \in TiersMet(tradeCount, rating) : other <= tier

(* C19: under the thresholds Bronze(10,400), Silver(25,450), Gold(50,480), *)
(* Platinum(100,490), Diamond(250,495) the eligible tier of every          *)
(* (successful trades, average rating) pair is the highest tier whose      *)
(* minimum trades and minimum rating are both met, None if there is none;  *)
(* a sync that is applied leaves the user's highest tier at the larger of  *)
(* the tier held and the eligible tier, so 10 trades at an average of      *)
(* exactly 400 give Bronze and 24 trades at 460 do not give Silver.        *)
TierEligibility ==
    /\ [](\A tradeCount \in TradeCounts, rating \in AverageRatings :
             DetermineEligibleTier(tierThresholds, tradeCount, rating) =
                 HighestTierMet(tradeCount, rating))
    /\ [][last'.op = "syncCrossChainReputation"
             /\ last'.id \notin processedCrossChainUpdates =>
             LET user == last'.args[1]
                 after == userReputations'[user]
                 average == IF after.ratingCount = 0 THEN 0
                            ELSE after.totalRatingPoints \div after.ratingCount
                 eligible == HighestTierMet(after.successfulTrades, average)
             IN  /\ userHighestTier'[user] =
                       IF eligible > userHighestTier[user] THEN eligible
                       ELSE userHighestTier[user]
                 /\ after.successfulTrades = 10 /\ average = 400 =>
                       userHighestTier'[user] = Bronze
                 /\ after.successfulTrades = 24 /\ average = 460 =>
                       userHighestTier'[user] < Silver]_vars

(* Bronze at 10 trades and 400, then 14 more trades: 24 at an average of *)
(* 460, still Bronze                                                     *)
TierEligibilityWitness ==
    /\ last.op = "syncCrossChainReputation"
    /\ last.args[2].trades = 14
    /\ userReputations["alice"].successfulTrades = 24
    /\ userReputations["alice"].totalRatingPoints = 11040
    /\ userReputations["alice"].ratingCount = 24
    /\ userHighestTier["alice"] = Bronze
    /\ userBadges["alice"][Bronze] > 0
    /\ userBadges["alice"][Silver] = 0

(* one more trade rated 210: 25 trades at an average of 450, Silver *)
SilverAtTwentyFiveWitness ==
    /\ userReputations["alice"].successfulTrades = 25
    /\ userReputations["alice"].totalRatingPoints = 11250
    /\ userHighestTier["alice"] = Silver
    /\ userBadges["alice"][Bronze] > 0

(* One trade with every party's calls, the permissionless calls by anyone,  *)
(* the admin's changes of the auto-release delay, and the clock. The clock  *)
(* stops at MaxTime, so the trade is created at time 0 and delivered early  *)
(* enough for the initial delay to elapse before the clock stops; a block's *)
(* timestamp is positive, so deliveredAt is.                                *)
NextLive ==
    \/ \E caller \in Buyers, amount \in TransferAmounts :
          now = 0 /\ tradeNonce = 0 /\ CreateTrade(caller, "bob", USDC, amount, 0)
    \/ \E caller \in Users : AcceptTrade(caller, 1)
    \/ \E caller \in Users :
          /\ now > 0
          /\ now + InitialAutoReleaseDelay <= MaxTime
          /\ MarkDelivered(caller, 1)
    \/ \E caller \in Users, r \in Ratings : ConfirmDelivery(caller, 1, r)
    \/ \E caller \in Users : CancelTrade(caller, 1)
    \/ \E caller \in Users : RaiseDispute(caller, 1)
    \/ \E caller \in Callers : ClaimExpiredTrade(caller, 1)
    \/ \E caller \in Callers : AutoRelease(caller, 1)
    \/ \E caller \in Callers, d \in DelayUpdates : UpdateAutoReleaseDelay(caller, d)
    \/ \E step \in FineSteps : Tick(step)

(* The clock advances, and someone who is no party to the trade calls *)
(* claimExpiredTrade and autoRelease whenever they stay possible      *)
FairLive ==
    /\ WF_vars(\E step \in FineSteps : Tick(step))
    /\ WF_vars(\E caller \in Keepers : ClaimExpiredTrade(caller, 1))
    /\ WF_vars(\E caller \in Keepers : AutoRelease(caller, 1))

SpecLive == Init /\ [][NextLive]_vars /\ FairLive

(* The same with strong fairness of the two calls: they are made even if *)
(* they are possible only again and again                                *)
StronglyFairLive ==
    /\ WF_vars(\E step \in FineSteps : Tick(step))
    /\ SF_vars(\E caller \in Keepers : ClaimExpiredTrade(caller, 1))
    /\ SF_vars(\E caller \in Keepers : AutoRelease(caller, 1))

SpecLiveStrong == Init /\ [][NextLive]_vars /\ StronglyFairLive

Open(id) == trades[id].status \in {"Created", "SellerAccepted", "Delivered"}

Settled(id) == trades[id].status \in Terminal \cup {"Disputed"}

(* an expired trade can be claimed, and a delivered trade whose delay has *)
(* elapsed can be released, by anyone                                     *)
Permissionless ==
    \A id \in TradeIds, caller \in Callers :
        /\ trades[id].status \in {"Created", "SellerAccepted"} /\ now > trades[id].expiresAt
              => ClaimExpiredTradeErr(caller, id) = "ok"
        /\ trades[id].status = "Delivered"
              /\ now >= trades[id].deliveredAt + autoReleaseDelay
              => AutoReleaseErr(caller, id) = "ok"

PastDeadline(id) ==
    trades[id].status \in {"Created", "SellerAccepted"} /\ now > trades[id].expiresAt

(* C21 as stated: once the clock is past expiresAt while the trade is      *)
(* Created or SellerAccepted, acceptTrade, markDelivered and cancelTrade   *)
(* all fail on it for every caller.                                        *)
DeadlineBlocksPriorOperations ==
    \A id \in TradeIds, caller \in Callers :
        PastDeadline(id) =>
            /\ AcceptTradeErr(caller, id) # "ok"
            /\ MarkDeliveredErr(caller, id) # "ok"
            /\ CancelTradeErr(caller, id) # "ok"

(* C21, amended: past expiresAt, acceptTrade fails for every caller (with  *)
(* InvalidTrade for the seller of a Created trade) and claimExpiredTrade   *)
(* succeeds for every caller; the only operations that change the trade    *)
(* are claimExpiredTrade, the seller's markDelivered on a SellerAccepted   *)
(* trade and the buyer's cancelTrade on a Created trade, which are not     *)
(* checked against the deadline.                                           *)
DeadlineSemantics ==
    [][\A id \in TradeIds :
          PastDeadline(id) =>
              /\ \A caller \in Callers :
                    /\ AcceptTradeErr(caller, id) # "ok"
                    /\ ClaimExpiredTradeErr(caller, id) = "ok"
              /\ trades[id].status = "Created" =>
                    AcceptTradeErr(trades[id].seller, id) = "InvalidTrade"
              /\ trades'[id] # trades[id] =>
                    /\ last'.id = id
                    /\ \/ last'.op = "claimExpiredTrade" /\ trades'[id].status = "Expired"
                       \/ /\ last'.op = "markDelivered"
                          /\ trades[id].status = "SellerAccepted"
                          /\ trades'[id].status = "Delivered"
                       \/ /\ last'.op = "cancelTrade"
                          /\ trades[id].status = "Created"
                          /\ trades'[id].status = "Cancelled"]_vars

(* a trade marked delivered after its deadline, and another cancelled *)
(* after its deadline                                                 *)
DeadlineSemanticsWitness ==
    /\ last.op = "cancelTrade"
    /\ last.id = 2
    /\ trades[2].status = "Cancelled"
    /\ now > trades[2].expiresAt
    /\ trades[1].status = "Delivered"
    /\ trades[1].deliveredAt > trades[1].expiresAt

(* Direct calls to the reputation engine and the badge registry by role *)
(* holders and by end users, with the admin's role grants               *)
NextAccess ==
    \/ \E caller \in AccessCallers, user \in Users : RegisterUser(caller, user)
    \/ \E caller \in AccessCallers, r \in RecordRatings :
          RecordTrade(caller, 1, "bob", "alice", r, r)
    \/ \E caller \in AccessCallers :
          /\ userReputations["alice"].disputesWon < MaxRecordings
          /\ RecordDisputeResolution(caller, 1, "alice", "bob")
    \/ \E caller \in AccessCallers, p \in SyncPayloads :
          SyncCrossChainReputation(caller, "alice", p, SyncId("m1", 1, "alice"))
    \/ \E caller \in AccessCallers, t \in ThresholdUpdates :
          UpdateTierThreshold(caller, Bronze, t.minTrades, t.minRating)
    \/ \E caller \in AccessCallers, to \in Subjects : MintBadge(caller, to, Bronze)
    \/ \E caller \in AccessCallers, holder \in Subjects : UpgradeBadge(caller, holder, Silver)
    \/ \E caller \in Users, r \in RecordRatings :
          DirectCallReverts(caller, "recordTrade", RecordTradeErr(engineRoles, caller, r, r))
    \/ \E caller \in Users :
          DirectCallReverts(caller, "recordDisputeResolution",
                            RecordDisputeResolutionErr(engineRoles, caller))
    \/ \E caller \in Users :
          DirectCallReverts(caller, "syncCrossChainReputation",
                            SyncCrossChainReputationErr(engineRoles, caller))
    \/ \E caller \in Users :
          DirectCallReverts(caller, "updateTierThreshold",
                            UpdateTierThresholdErr(caller, Bronze))
    \/ \E caller \in Users, to \in Subjects :
          DirectCallReverts(caller, "mintBadge",
                            MintBadgeErr(badgeRoles, BadgeState, caller, to, Bronze))
    \/ \E caller \in Users, holder \in Subjects :
          DirectCallReverts(caller, "upgradeBadge",
                            UpgradeBadgeErr(badgeRoles, BadgeState, caller, holder, Silver))
    \/ \E caller \in AccessCallers : GrantEngineRole(caller, DISPUTE_RESOLVER_ROLE, Escrow)
    \/ \E caller \in AccessCallers : GrantBadgeRole(caller, MINTER_ROLE, Badge)

SpecAccess == Init /\ [][NextAccess]_vars

EndUserOps ==
    {"recordTrade", "recordDisputeResolution", "syncCrossChainReputation",
     "updateTierThreshold", "mintBadge", "upgradeBadge"}

RoleLess(roles, caller) == \A role \in AllRoles : ~HasRole(roles, role, caller)

(* every role-gated operation refuses a caller without its role *)
RoleGated ==
    \A caller \in Holders \cup {Badge, Engine} :
        /\ ~HasRole(engineRoles, ESCROW_ROLE, caller) =>
              \A r \in RecordRatings :
                  RecordTradeErr(engineRoles, caller, r, r) = "AccessControlUnauthorizedAccount"
        /\ ~HasRole(engineRoles, DISPUTE_RESOLVER_ROLE, caller) =>
              RecordDisputeResolutionErr(engineRoles, caller) = "AccessControlUnauthorizedAccount"
        /\ ~HasRole(engineRoles, CROSS_CHAIN_ROLE, caller) =>
              SyncCrossChainReputationErr(engineRoles, caller) = "AccessControlUnauthorizedAccount"
        /\ ~HasRole(engineRoles, DEFAULT_ADMIN_ROLE, caller) =>
              \A tier \in Tiers :
                  UpdateTierThresholdErr(caller, tier) = "AccessControlUnauthorizedAccount"
        /\ ~HasRole(badgeRoles, MINTER_ROLE, caller) =>
              \A to \in Users, tier \in Tiers :
                  /\ MintBadgeErr(badgeRoles, BadgeState, caller, to, tier)
                        = "AccessControlUnauthorizedAccount"
                  /\ UpgradeBadgeErr(badgeRoles, BadgeState, caller, to, tier)
                        = "AccessControlUnauthorizedAccount"

(* a state of either component changes only in a step of a call that went *)
(* through, never in a reverted call                                      *)
RevertsWriteNothing ==
    last'.err # "ok" => UNCHANGED <<engineVars, badgeVars>>

(* C22 as stated: every operation that changes ReputationEngine or badge  *)
(* registry state, registerUser included, fails for a caller holding none *)
(* of the roles authorized for it, so an end user with no role changes    *)
(* neither component's state by calling it directly.                      *)
EndUsersChangeNothing ==
    [][/\ RoleGated
       /\ RevertsWriteNothing
       /\ last'.op = "registerUser" /\ RoleLess(engineRoles, last'.args[1]) =>
             userReputations' = userReputations]_vars

(* C22, amended: recordTrade, recordDisputeResolution,                     *)
(* syncCrossChainReputation, updateTierThreshold, mintBadge and            *)
(* upgradeBadge fail for a caller without the operation's role and a       *)
(* failed call changes nothing; registerUser is open to every caller, and  *)
(* all it changes is the record of a user who was not registered, which    *)
(* becomes the zero record.                                                *)
RoleGatedMutation ==
    [][/\ RoleGated
       /\ RevertsWriteNothing
       /\ last'.op = "registerUser" =>
             /\ last'.err = "ok"
             /\ \A u \in Users :
                   userReputations'[u] =
                       IF u = last'.args[2] /\ ~userReputations[u].isActive
                       THEN NewReputation ELSE userReputations[u]
             /\ UNCHANGED <<processedCrossChainUpdates, tierThresholds, engineRoles,
                            badgeVars>>]_vars

(* bob, who holds no role, was refused a mint after alice, who holds none *)
(* either, had registered him                                             *)
RoleGatedMutationWitness ==
    /\ last.op = "mintBadge"
    /\ last.err = "AccessControlUnauthorizedAccount"
    /\ last.args[1] = "bob"
    /\ RoleLess(engineRoles, "bob") /\ RoleLess(badgeRoles, "bob")
    /\ userReputations["bob"].isActive
    /\ userReputations["bob"].totalTrades = 0
    /\ userHighestTier["alice"] = None

(* One trade with every caller trying every operation that names a caller *)
NextCallers ==
    \/ \E caller \in Buyers, amount \in TransferAmounts :
          tradeNonce = 0 /\ CreateTrade(caller, "bob", USDC, amount, 0)
    \/ \E caller \in Callers : AcceptTrade(caller, 1)
    \/ \E caller \in Callers : AcceptTradeReverts(caller, 1)
    \/ \E caller \in Callers : MarkDelivered(caller, 1)
    \/ \E caller \in Callers : MarkDeliveredReverts(caller, 1)
    \/ \E caller \in Callers, r \in Ratings : ConfirmDelivery(caller, 1, r)
    \/ \E caller \in Callers, r \in Ratings : ConfirmDeliveryReverts(caller, 1, r)
    \/ \E caller \in Callers, r \in Ratings : RateBuyer(caller, 1, r)
    \/ \E caller \in Callers, r \in Ratings : RateBuyerReverts(caller, 1, r)
    \/ \E caller \in Callers : CancelTrade(caller, 1)
    \/ \E caller \in Callers : CancelTradeReverts(caller, 1)
    \/ \E caller \in Callers : RaiseDispute(caller, 1)
    \/ \E caller \in Callers : RaiseDisputeReverts(caller, 1)
    \/ \E caller \in Callers, e \in Evidence : SubmitEvidence(caller, 1, e)
    \/ \E caller \in Callers : SubmitEvidenceReverts(caller, 1)
    \/ \E caller \in Callers, winner \in Winners : ResolveDispute(caller, 1, winner)
    \/ \E caller \in Callers, winner \in Winners : ResolveDisputeReverts(caller, 1, winner)
    \/ \E caller \in Callers : GrantEngineRole(caller, DISPUTE_RESOLVER_ROLE, Escrow)

SpecCallers == Init /\ [][NextCallers]_vars

ConstrainedOps ==
    {"acceptTrade", "markDelivered", "rateBuyer", "confirmDelivery", "cancelTrade",
     "raiseDispute", "submitEvidence", "resolveDispute"}

CallerOf(call) ==
    IF call.op \in {"confirmDelivery", "rateBuyer"} THEN call.args[2] ELSE call.args[1]

RightCaller(call, trade) ==
    CASE call.op \in {"acceptTrade", "markDelivered", "rateBuyer"} ->
            CallerOf(call) = trade.seller
      [] call.op \in {"confirmDelivery", "cancelTrade"} ->
            CallerOf(call) = trade.buyer
      [] call.op \in {"raiseDispute", "submitEvidence"} ->
            CallerOf(call) \in {trade.buyer, trade.seller}
      [] call.op = "resolveDispute" ->
            /\ <<DISPUTE_RESOLVER_ROLE, CallerOf(call)>> \in escrowRoles
            /\ call.args[2] \in {trade.buyer, trade.seller}

(* C23: acceptTrade, markDelivered and rateBuyer succeed only for the      *)
(* trade's seller, confirmDelivery and cancelTrade only for its buyer,     *)
(* raiseDispute and submitEvidence only for its buyer or seller,           *)
(* resolveDispute only for a holder of the escrow's DISPUTE_RESOLVER_ROLE  *)
(* and a winner that is the buyer or the seller; any other call fails and  *)
(* leaves the trades, the disputes and all balances unchanged.             *)
CallerConstraints ==
    [][last'.op \in ConstrainedOps =>
          /\ last'.err = "ok" => RightCaller(last', trades[last'.id])
          /\ ~RightCaller(last', trades[last'.id]) =>
                /\ last'.err # "ok"
                /\ trades' = trades
                /\ disputes' = disputes
                /\ balances' = balances]_vars

(* the resolver, no party to the trade, is refused as a submitter of *)
(* evidence after the seller's evidence was accepted                 *)
CallerConstraintsWitness ==
    /\ last.op = "submitEvidence"
    /\ last.err = "Unauthorized"
    /\ last.args[1] = Resolver
    /\ trades[1].status = "Disputed"
    /\ disputes[1].sellerEvidence \in Evidence

(* a dispute resolved by a role holder for the seller *)
ResolvedForSellerWitness ==
    /\ last.op = "resolveDispute"
    /\ last.err = "ok"
    /\ last.args[2] = trades[1].seller
    /\ trades[1].status = "Resolved"

-----------------------------------------------------------------------------
(***************************************************************************)
(* Re-entry.  An escrow call that is inside an external call may be called *)
(* back: the payment token may call the recipient of a transfer, and       *)
(* _safeMint calls onERC721Received of a contract that receives a badge.   *)
(* The callee may then call the escrow again before the first call ends.   *)
(***************************************************************************)

(* the entry points declared nonReentrant *)
NonReentrantOps ==
    {"createTrade", "acceptTrade", "markDelivered", "confirmDelivery", "cancelTrade",
     "claimExpiredTrade", "autoRelease", "raiseDispute", "resolveDispute"}

(* the entry points that change a trade or a dispute *)
MutatingOps == NonReentrantOps \cup {"rateBuyer", "submitEvidence"}

(* the nonReentrant modifier on entry, for the entry points that carry it *)
NonReentrantErr(op) ==
    IF op \in NonReentrantOps /\ guardStatus = ENTERED
    THEN "ReentrancyGuardReentrantCall"
    ELSE "ok"

(* The call op on tradeId has written its state and is inside its last    *)
(* external call, which hands control to callee; nonReentrant holds the   *)
(* guard until the call ends.                                             *)
HandsControlTo(op, tradeId, callee) ==
    /\ executing = NoCall
    /\ executing' = [op |-> op, id |-> tradeId, callee |-> callee]
    /\ guardStatus' = IF op \in NonReentrantOps THEN ENTERED ELSE NOT_ENTERED

(* cancelTrade inside safeTransfer: the token calls the buyer it pays *)
CancelTradeCallsBack(caller, tradeId) ==
    /\ CancelTradeEffects(caller, tradeId)
    /\ HandsControlTo("cancelTrade", tradeId, trades[tradeId].buyer)

(* claimExpiredTrade inside safeTransfer: the token calls the buyer it pays *)
ClaimExpiredTradeCallsBack(caller, tradeId) ==
    /\ ClaimExpiredTradeEffects(caller, tradeId)
    /\ HandsControlTo("claimExpiredTrade", tradeId, trades[tradeId].buyer)

(* rateBuyer inside recordTrade: the engine mints the buyer a badge and *)
(* _safeMint calls the buyer                                            *)
RateBuyerCallsBack(caller, tradeId, buyerRating) ==
    /\ RateBuyerEffects(caller, tradeId, buyerRating)
    /\ userHighestTier'[trades[tradeId].buyer] # userHighestTier[trades[tradeId].buyer]
    /\ HandsControlTo("rateBuyer", tradeId, trades[tradeId].buyer)

(* the callee returns and the suspended call runs to its end *)
Returns ==
    /\ executing # NoCall
    /\ executing' = NoCall
    /\ guardStatus' = NOT_ENTERED
    /\ UNCHANGED <<balances, now, trades, disputes, tradeNonce, feeRecipient,
                   platformFeeRate, supportedTokens, paused, disputeWindow,
                   autoReleaseDelay, escrowRoles, paid, strayInflow, engineVars,
                   badgeVars, bridgeVars, last>>

(* a call from outside, when no escrow call is under way *)
Outer == executing = NoCall

(* a call by the callee of the suspended call that passes nonReentrant *)
Nested(op, caller) ==
    /\ executing # NoCall
    /\ caller = executing.callee
    /\ NonReentrantErr(op) = "ok"

(* a call by the callee of the suspended call that nonReentrant rejects *)
NestedCallReverts(op, tradeId) ==
    /\ executing # NoCall
    /\ Reverted(op, tradeId, NonReentrantErr(op), <<executing.callee>>)

(* the Bronze threshold an administrator sets so that one trade earns a badge *)
CallbackThreshold == [minTrades |-> 1, minRating |-> 400]

NextReentry ==
    \/ \E caller \in Users, seller \in Users :
          Outer /\ CreateTrade(caller, seller, USDC, 100, 0)
    \/ \E caller \in Users, id \in TradeIds : Outer /\ AcceptTrade(caller, id)
    \/ \E caller \in Users, id \in TradeIds : Outer /\ MarkDelivered(caller, id)
    \/ \E caller \in Users, id \in TradeIds, r \in Ratings :
          Outer /\ ConfirmDelivery(caller, id, r)
    \/ \E caller \in Users, id \in TradeIds, r \in Ratings :
          Outer /\ RateBuyer(caller, id, r)
    \/ \E caller \in Users, id \in TradeIds, r \in Ratings :
          RateBuyerCallsBack(caller, id, r)
    \/ \E caller \in Users, id \in TradeIds : Outer /\ CancelTrade(caller, id)
    \/ \E caller \in Users, id \in TradeIds : CancelTradeCallsBack(caller, id)
    \/ \E caller \in Users, id \in TradeIds : Outer /\ ClaimExpiredTrade(caller, id)
    \/ \E caller \in Users, id \in TradeIds : ClaimExpiredTradeCallsBack(caller, id)
    \/ \E caller \in Users, id \in TradeIds : Outer /\ RaiseDispute(caller, id)
    \/ Outer /\ UpdateTierThreshold(Owner, Bronze, CallbackThreshold.minTrades,
                                    CallbackThreshold.minRating)
    \/ \E step \in TickSteps : Outer /\ Tick(step)
    \/ Returns
    \/ \E caller \in Users, seller \in Users :
          Nested("createTrade", caller) /\ CreateTrade(caller, seller, USDC, 100, 0)
    \/ \E caller \in Users, id \in TradeIds :
          Nested("acceptTrade", caller) /\ AcceptTrade(caller, id)
    \/ \E caller \in Users, id \in TradeIds :
          Nested("markDelivered", caller) /\ MarkDelivered(caller, id)
    \/ \E caller \in Users, id \in TradeIds, r \in Ratings :
          Nested("confirmDelivery", caller) /\ ConfirmDelivery(caller, id, r)
    \/ \E caller \in Users, id \in TradeIds, r \in Ratings :
          Nested("rateBuyer", caller) /\ RateBuyer(caller, id, r)
    \/ \E caller \in Users, id \in TradeIds :
          Nested("cancelTrade", caller) /\ CancelTrade(caller, id)
    \/ \E caller \in Users, id \in TradeIds :
          Nested("claimExpiredTrade", caller) /\ ClaimExpiredTrade(caller, id)
    \/ \E caller \in Users, id \in TradeIds :
          Nested("autoRelease", caller) /\ AutoRelease(caller, id)
    \/ \E caller \in Users, id \in TradeIds :
          Nested("raiseDispute", caller) /\ RaiseDispute(caller, id)
    \/ \E caller \in Users, id \in TradeIds, e \in Evidence :
          Nested("submitEvidence", caller) /\ SubmitEvidence(caller, id, e)
    \/ \E op \in MutatingOps \ {"resolveDispute"}, id \in TradeIds :
          NestedCallReverts(op, id)
    \/ \E caller \in Users, id \in TradeIds, winner \in Users :
          executing # NoCall /\ caller = executing.callee
              /\ ResolveDisputeReverts(caller, id, winner)

SpecReentry == Init /\ [][NextReentry]_vars

(* C24 as stated: every mutating entry point holds the re-entry guard while *)
(* it executes, so that every call the callee of a suspended call makes to  *)
(* a mutating entry point fails.                                            *)
ReentryGuard ==
    [][executing # NoCall =>
          /\ guardStatus = ENTERED
          /\ executing' = executing => last'.err # "ok"]_vars

-----------------------------------------------------------------------------
(***************************************************************************)
(* The liquidity pool of the bridge: deposits, removals, outbound          *)
(* transfers on either path, inbound deliveries and the fee rate.          *)
(***************************************************************************)

(* inbound token transfers from the peer bridge, under one message id *)
TokenDeliveries ==
    {m \in Messages : /\ m.messageId = "m1"
                      /\ m.sourceChainSelector = 1
                      /\ m.sender = RemoteBridge
                      /\ m.data.messageType = "TokenTransfer"}

NextPool ==
    \/ \E caller \in Callers : ConfigureChain(caller, 1, RemoteBridge)
    \/ \E caller \in Callers : DeactivateChain(caller, 1)
    \/ \E caller \in Subjects, c \in ChainSelectors : AddLiquidity(caller, c, LiquidityStep)
    \/ \E caller \in Subjects, c \in ChainSelectors :
          AddLiquidityReverts(caller, c, LiquidityStep)
    \/ \E caller \in {Owner} \cup Subjects, c \in ChainSelectors, amount \in RemoveAmounts :
          RemoveLiquidity(caller, c, amount)
    \/ \E caller \in {Owner} \cup Subjects, c \in ChainSelectors, amount \in RemoveAmounts :
          RemoveLiquidityReverts(caller, c, amount)
    \/ \E caller \in Subjects, c \in ChainSelectors, amount \in BridgeAmounts,
          useLiquidityPool \in BOOLEAN :
          BridgeTokens(caller, c, "bob", amount, useLiquidityPool)
    \/ \E caller \in Subjects, c \in ChainSelectors, amount \in BridgeAmounts,
          useLiquidityPool \in BOOLEAN :
          BridgeTokensReverts(caller, c, amount, useLiquidityPool)
    \/ \E caller \in Callers, rate \in BridgeFeeRates : SetBridgeFeeRate(caller, rate)
    \/ \E m \in TokenDeliveries : CcipReceive(m)

SpecPool == Init /\ [][NextPool]_vars

PoolNeverNegative == \A c \in ChainSelectors : liquidityPool[c] >= 0

(* the net amount of a bridgeTokens call, at the fee rate it ran under *)
NetOf(amount) == amount - (amount * bridgeFeeRate) \div BASIS_POINTS

(* the pool of chain c changes exactly as call says *)
PoolChangeOf(call, c) ==
    /\ call.err = "ok"
    /\ call.id = c
    /\ \/ /\ call.op = "addLiquidity"
          /\ liquidityPool'[c] = liquidityPool[c] + call.args[1]
       \/ /\ call.op = "removeLiquidity"
          /\ liquidityPool'[c] = liquidityPool[c] - call.args[2]
       \/ /\ call.op = "bridgeTokens"
          /\ call.args[3]
          /\ liquidityPool[c] >= NetOf(call.args[2])
          /\ liquidityPool'[c] = liquidityPool[c] - NetOf(call.args[2])

(* a bridgeTokens call that succeeds takes the fast path exactly when the *)
(* flag is set and the pool covers the net amount; either way one         *)
(* transfer is dispatched                                                 *)
PathOf(call) ==
    LET c == call.id
        net == NetOf(call.args[2])
        fast == call.args[3] /\ liquidityPool[c] >= net
    IN  /\ fast => liquidityPool'[c] = liquidityPool[c] - net
        /\ ~fast => liquidityPool' = liquidityPool
        /\ Len(pendingTransfers') = Len(pendingTransfers) + 1
        /\ pendingTransfers'[Len(pendingTransfers')].amount = net

(* C25: the pool of every destination chain is never negative; it changes *)
(* only by a successful addLiquidity (+amount), removeLiquidity (-amount) *)
(* or bridgeTokens on the fast path (-net amount); an operator's          *)
(* removeLiquidity of more than the pool fails with InsufficientLiquidity; *)
(* bridgeTokens takes the fast path only when useLiquidityPool is set and *)
(* the pool covers the net amount, and otherwise dispatches on the        *)
(* standard path with the pool unchanged.                                 *)
LiquidityPool ==
    /\ []PoolNeverNegative
    /\ [][/\ \A c \in ChainSelectors :
                liquidityPool'[c] # liquidityPool[c] => PoolChangeOf(last', c)
          /\ (/\ last'.op = "removeLiquidity"
              /\ HasRole(bridgeRoles, OPERATOR_ROLE, last'.args[1])
              /\ last'.args[2] > liquidityPool[last'.id])
                => last'.err = "InsufficientLiquidity"
          /\ (last'.op = "bridgeTokens" /\ last'.err = "ok") => PathOf(last')]_vars

(* A deposit of LiquidityStep, then a transfer on the fast path whose net *)
(* amount the pool covered while it did not cover the gross amount.       *)
LiquidityPoolWitness ==
    /\ last.op = "bridgeTokens" /\ last.err = "ok" /\ last.args[3]
    /\ Len(pendingTransfers) = 1
    /\ pendingTransfers[1].amount < last.args[2]
    /\ LiquidityStep < last.args[2]
    /\ liquidityPool[last.id] = LiquidityStep - pendingTransfers[1].amount
    /\ balances[USDC][Bridge] = LiquidityStep + pendingTransfers[1].amount

(* The flag was set but the pool did not cover the net amount: the pool is *)
(* as deposited and the transfer went out on the standard path.            *)
StandardPathWitness ==
    /\ last.op = "bridgeTokens" /\ last.err = "ok" /\ last.args[3]
    /\ Len(pendingTransfers) = 1
    /\ pendingTransfers[1].amount > LiquidityStep
    /\ liquidityPool[last.id] = LiquidityStep
    /\ balances[USDC][Bridge] = LiquidityStep + pendingTransfers[1].amount

-----------------------------------------------------------------------------
(* the tokens account receives in a step, in the token of trade *)
Received(trade, account) ==
    balances'[trade.paymentToken][account] - balances[trade.paymentToken][account]

(* the trade and rating counters of a user's reputation *)
TradeCounters(rep) ==
    <<rep.totalTrades, rep.successfulTrades, rep.totalRatingPoints, rep.ratingCount>>

(* C26: when resolveDispute succeeds for the seller, the seller receives    *)
(* amount - platformFee and the fee recipient platformFee; for the buyer,   *)
(* the buyer receives amount and the fee recipient nothing; either way the  *)
(* winner's disputesWon and the loser's disputesLost grow by exactly one    *)
(* and the trade and rating counters of both parties stay as they were.     *)
DisputePayout ==
    [][(last'.op = "resolveDispute" /\ last'.err = "ok") =>
          LET trade == trades[last'.id]
              winner == last'.args[2]
              loser == IF winner = trade.buyer THEN trade.seller ELSE trade.buyer
          IN  /\ winner = trade.seller =>
                    /\ Received(trade, trade.seller) = trade.amount - trade.platformFee
                    /\ Received(trade, feeRecipient) = trade.platformFee
                    /\ Received(trade, trade.buyer) = 0
              /\ winner = trade.buyer =>
                    /\ Received(trade, trade.buyer) = trade.amount
                    /\ Received(trade, feeRecipient) = 0
                    /\ Received(trade, trade.seller) = 0
              /\ Received(trade, Escrow) = 0 - trade.amount
              /\ userReputations'[winner].disputesWon
                    = userReputations[winner].disputesWon + 1
              /\ userReputations'[loser].disputesLost
                    = userReputations[loser].disputesLost + 1
              /\ userReputations'[winner].disputesLost
                    = userReputations[winner].disputesLost
              /\ userReputations'[loser].disputesWon = userReputations[loser].disputesWon
              /\ \A u \in {winner, loser} :
                    TradeCounters(userReputations'[u]) = TradeCounters(userReputations[u])]_vars

(* Two parties with a recorded trade behind them; their second trade was *)
(* disputed and resolved for the seller, a fee being due.                *)
DisputePayoutWitness ==
    \E id \in TradeIds :
        /\ last.op = "resolveDispute" /\ last.err = "ok" /\ last.id = id
        /\ last.args[2] = trades[id].seller
        /\ trades[id].platformFee > 0
        /\ paid[id].payout = trades[id].amount - trades[id].platformFee
        /\ paid[id].fee = trades[id].platformFee
        /\ userReputations[trades[id].seller].disputesWon = 1
        /\ userReputations[trades[id].buyer].disputesLost = 1
        /\ userReputations[trades[id].seller].totalTrades = 1

(* The same, resolved for the buyer: the whole amount, no fee. *)
ResolvedForBuyerWitness ==
    \E id \in TradeIds :
        /\ last.op = "resolveDispute" /\ last.err = "ok" /\ last.id = id
        /\ last.args[2] = trades[id].buyer
        /\ trades[id].platformFee > 0
        /\ paid[id].payout = trades[id].amount
        /\ paid[id].fee = 0
        /\ userReputations[trades[id].buyer].disputesWon = 1
        /\ userReputations[trades[id].seller].disputesLost = 1

-----------------------------------------------------------------------------
(* The trade ledger of Spec, with the rateBuyer calls that revert *)

NextOnce ==
    \/ Next
    \/ \E caller \in Users, id \in TradeIds, r \in Ratings : RateBuyerReverts(caller, id, r)

SpecOnce == Init /\ [][NextOnce]_vars

(* the trades recorded in the engine that user was a party of *)
RecordedTradesOf(user) ==
    {id \in TradeIds : recorded[id] > 0 /\ user \in {trades[id].buyer, trades[id].seller}}

RecordedAtMostOnce ==
    /\ \A id \in TradeIds :
          /\ recorded[id] <= 1
          /\ recorded[id] = 1 =>
                /\ trades[id].status = "Completed"
                /\ trades[id].buyerRating # 0
                /\ trades[id].sellerRating # 0
          /\ trades[id].status \in {"Cancelled", "Expired", "Resolved"} => recorded[id] = 0
    /\ \A u \in Users :
          /\ userReputations[u].totalTrades = Cardinality(RecordedTradesOf(u))
          /\ userReputations[u].successfulTrades = Cardinality(RecordedTradesOf(u))
          /\ userReputations[u].ratingCount = Cardinality(RecordedTradesOf(u))

(* C27: a trade is recorded in the engine at most once: recordTrade runs  *)
(* only in the first successful rateBuyer on a Completed trade, when both *)
(* ratings exist; a second rateBuyer by the seller fails with             *)
(* AlreadyRated; a Cancelled, Expired or Resolved trade is never          *)
(* recorded; and each party's counters count each recorded trade once.    *)
RecordedOnce ==
    /\ []RecordedAtMostOnce
    /\ [][/\ \A id \in TradeIds :
                recorded'[id] # recorded[id] =>
                    /\ last'.op = "rateBuyer" /\ last'.err = "ok" /\ last'.id = id
                    /\ trades[id].status = "Completed"
                    /\ trades[id].sellerRating = 0
                    /\ recorded[id] = 0
          /\ (last'.op = "rateBuyer" /\ last'.err = "ok") =>
                recorded'[last'.id] = recorded[last'.id] + 1
          /\ (/\ last'.op = "rateBuyer"
              /\ trades[last'.id].status = "Completed"
              /\ last'.args[2] = trades[last'.id].seller
              /\ trades[last'.id].sellerRating # 0)
                => last'.err = "AlreadyRated"]_vars

(* The seller rates a second time a trade that is recorded: AlreadyRated, *)
(* and the parties' counters stand at one trade.                          *)
RecordedOnceWitness ==
    \E id \in TradeIds :
        /\ last.op = "rateBuyer" /\ last.err = "AlreadyRated" /\ last.id = id
        /\ recorded[id] = 1
        /\ userReputations[trades[id].seller].totalTrades = 1
        /\ userReputations[trades[id].buyer].totalTrades = 1

-----------------------------------------------------------------------------
(* Two trades of alice with bob, while the administrator changes the fee *)
(* rate, removes the payment token and pauses the escrow.                *)

NextTerms ==
    \/ \E caller \in Buyers, amount \in TransferAmounts :
          now = 0 /\ CreateTrade(caller, "bob", USDC, amount, 0)
    \/ \E caller \in Users, id \in TradeIds : AcceptTrade(caller, id)
    \/ \E caller \in Users, id \in TradeIds : MarkDelivered(caller, id)
    \/ \E caller \in Users, id \in TradeIds, r \in Ratings : ConfirmDelivery(caller, id, r)
    \/ \E caller \in Users, id \in TradeIds, r \in Ratings : RateBuyer(caller, id, r)
    \/ \E caller \in Users, id \in TradeIds : CancelTrade(caller, id)
    \/ \E caller \in Users, id \in TradeIds : ClaimExpiredTrade(caller, id)
    \/ \E caller \in Users, id \in TradeIds : AutoRelease(caller, id)
    \/ \E caller \in Users, id \in TradeIds : RaiseDispute(caller, id)
    \/ \E caller \in Users, id \in TradeIds, e \in Evidence : SubmitEvidence(caller, id, e)
    \/ \E id \in TradeIds, winner \in Users : ResolveDispute(Resolver, id, winner)
    \/ GrantEngineRole(Owner, DISPUTE_RESOLVER_ROLE, Escrow)
    \/ \E rate \in FeeRates : UpdateFeeRate(Owner, rate)
    \/ RemoveSupportedToken(Owner, USDC)
    \/ Pause(Owner)
    \/ \E step \in TickSteps : Tick(step)

SpecTerms == Init /\ [][NextTerms]_vars

(* the terms of a trade, fixed when createTrade stores it *)
Terms(trade) ==
    <<trade.buyer, trade.seller, trade.paymentToken, trade.amount, trade.platformFee,
      trade.expiresAt>>

TradeOps ==
    {"createTrade", "acceptTrade", "markDelivered", "confirmDelivery", "rateBuyer",
     "cancelTrade", "claimExpiredTrade", "autoRelease", "raiseDispute",
     "submitEvidence", "resolveDispute"}

(* C28: once a trade exists its buyer, seller, token, amount, platformFee *)
(* and expiresAt never change; updateFeeRate, removeSupportedToken and    *)
(* pause change no trade; and an operation on one trade id leaves every   *)
(* other trade (and its dispute) as it was.                               *)
TermsImmutable ==
    [][/\ \A id \in TradeIds :
             trades[id].status # "None" => Terms(trades'[id]) = Terms(trades[id])
       /\ last'.op \in {"updateFeeRate", "removeSupportedToken", "pause"}
             => trades' = trades /\ disputes' = disputes
       /\ \A id \in TradeIds :
             (trades'[id] # trades[id] \/ disputes'[id] # disputes[id])
                => last'.op \in TradeOps /\ last'.id = id]_vars

(* A trade created at the initial fee rate was completed after the rate  *)
(* was doubled, its token removed and the escrow paused: it still        *)
(* carries, and has paid, the fee of the rate it was created under.      *)
TermsImmutableWitness ==
    \E id \in TradeIds :
        /\ trades[id].status = "Completed"
        /\ paused
        /\ trades[id].paymentToken \notin supportedTokens
        /\ platformFeeRate # InitialFeeRate
        /\ trades[id].platformFee = CalculateFeeInitialRate(trades[id].amount)
        /\ trades[id].platformFee # CalculateFee(trades[id].amount)
        /\ paid[id].fee = trades[id].platformFee

-----------------------------------------------------------------------------
(* the three operations that compete for a Delivered trade *)
RaceOps == {"confirmDelivery", "autoRelease", "raiseDispute"}

(* what has left the escrow for a trade *)
PaidOut(id) == paid[id].payout + paid[id].fee + paid[id].refund

SettledOrDisputed ==
    \A id \in TradeIds :
        /\ paid[id].calls <= 1
        /\ PaidOut(id) <= trades[id].amount
        /\ trades[id].status = "Disputed" =>
              paid[id].calls = 0 /\ disputes[id].initiator # ZERO
        /\ trades[id].status = "Completed" =>
              paid[id].calls = 1 /\ disputes[id] = NoDispute

(* C29: of confirmDelivery, autoRelease and raiseDispute on the same     *)
(* Delivered trade only the first that passes its guards takes effect:   *)
(* each succeeds only from Delivered, and once the trade is Completed or *)
(* Disputed each fails with InvalidStatus and changes nothing; a trade   *)
(* is paid at most once, a Completed trade never becomes Disputed, a     *)
(* Disputed one never Completed.                                         *)
SameTradeRaces ==
    /\ []SettledOrDisputed
    /\ [][/\ last'.op \in RaceOps =>
                /\ last'.err = "ok" =>
                      /\ trades[last'.id].status = "Delivered"
                      /\ trades'[last'.id].status =
                            IF last'.op = "raiseDispute" THEN "Disputed" ELSE "Completed"
                /\ trades[last'.id].status \in {"Completed", "Disputed"} =>
                      /\ last'.err = "InvalidStatus"
                      /\ trades' = trades /\ disputes' = disputes
                      /\ balances' = balances /\ paid' = paid
          /\ \A id \in TradeIds :
                /\ trades[id].status = "Completed" => trades'[id].status = "Completed"
                /\ trades[id].status = "Disputed" =>
                      trades'[id].status \in {"Disputed", "Resolved"}]_vars

(* The buyer confirmed first; a dispute raised by a party while the      *)
(* dispute window was still open then failed with InvalidStatus.         *)
SameTradeRacesWitness ==
    /\ last.op = "raiseDispute" /\ last.err = "InvalidStatus"
    /\ last.args[1] \in {trades[last.id].buyer, trades[last.id].seller}
    /\ trades[last.id].status = "Completed"
    /\ now <= trades[last.id].deliveredAt + disputeWindow
    /\ paid[last.id].calls = 1

(* A dispute was raised first; the buyer's confirmDelivery then failed. *)
ConfirmAfterDisputeWitness ==
    /\ last.op = "confirmDelivery" /\ last.err = "InvalidStatus"
    /\ last.args[2] = trades[last.id].buyer
    /\ trades[last.id].status = "Disputed"
    /\ paid[last.id].calls = 0

-----------------------------------------------------------------------------
(* One trade and a day-by-day clock around its deadline: the seller may *)
(* accept and deliver, the buyer cancel, and anyone claim the expiry.   *)

NextExpiry ==
    \/ \E caller \in Buyers, amount \in Amounts :
          now = 0 /\ tradeNonce = 0 /\ CreateTrade(caller, "bob", USDC, amount, 0)
    \/ \E caller \in Callers : AcceptTrade(caller, 1)
    \/ \E caller \in Callers : AcceptTradeReverts(caller, 1)
    \/ \E caller \in Users : MarkDelivered(caller, 1)
    \/ \E caller \in Users : CancelTrade(caller, 1)
    \/ \E caller \in Callers : ClaimExpiredTrade(caller, 1)
    \/ \E caller \in Callers : ClaimExpiredTradeReverts(caller, 1)
    \/ \E caller \in Callers, rate \in FeeRates : UpdateFeeRate(caller, rate)
    \/ Pause(Owner)
    \/ \E step \in FineSteps : Tick(step)

SpecExpiry == Init /\ [][NextExpiry]_vars

(* a trade that claimExpiredTrade may still expire *)
Expirable(trade) == trade.status \in {"Created", "SellerAccepted"}

NeverBothEnabled ==
    \A id \in TradeIds, accepting \in Callers, claiming \in Callers :
        ~(AcceptTradeErr(accepting, id) = "ok" /\ ClaimExpiredTradeErr(claiming, id) = "ok")

(* C30: claimExpiredTrade succeeds, for any caller, exactly when the trade *)
(* is Created or SellerAccepted and now > expiresAt; on such a trade it    *)
(* fails with TradeNotExpired while now <= expiresAt; a success marks the  *)
(* trade Expired and refunds the whole amount to the buyer, nothing to the *)
(* fee recipient or to another caller; acceptTrade and claimExpiredTrade   *)
(* are never both enabled for a trade at one clock value.                  *)
ExpiryClaim ==
    /\ []NeverBothEnabled
    /\ [][last'.op = "claimExpiredTrade" =>
             LET trade == trades[last'.id]
                 caller == last'.args[1]
             IN  /\ last'.err = "ok" <=> (Expirable(trade) /\ now > trade.expiresAt)
                 /\ (Expirable(trade) /\ now <= trade.expiresAt)
                       => last'.err = "TradeNotExpired"
                 /\ last'.err = "ok" =>
                       /\ trades'[last'.id].status = "Expired"
                       /\ Received(trade, trade.buyer) = trade.amount
                       /\ Received(trade, Escrow) = 0 - trade.amount
                       /\ Received(trade, feeRecipient) = 0
                       /\ caller # trade.buyer => Received(trade, caller) = 0
                       /\ paid'[last'.id].fee = 0
                 /\ last'.err # "ok" => trades' = trades /\ balances' = balances]_vars

(* A trade with a fee due, accepted by the seller, was expired by someone *)
(* who is not a party: the buyer has the whole amount back.               *)
ExpiryClaimWitness ==
    /\ last.op = "claimExpiredTrade" /\ last.err = "ok"
    /\ last.args[1] \notin {trades[last.id].buyer, trades[last.id].seller}
    /\ trades[last.id].status = "Expired"
    /\ trades[last.id].platformFee > 0
    /\ now > trades[last.id].expiresAt
    /\ paid[last.id].refund = trades[last.id].amount
    /\ paid[last.id].fee = 0
    /\ balances[trades[last.id].paymentToken][trades[last.id].buyer] = InitialUserBalance

(* On the day of the deadline itself the claim fails and the seller can *)
(* still accept.                                                        *)
ClaimOnDeadlineWitness ==
    /\ last.op = "claimExpiredTrade" /\ last.err = "TradeNotExpired"
    /\ now = trades[last.id].expiresAt
    /\ trades[last.id].status = "Created"
    /\ AcceptTradeErr(trades[last.id].seller, last.id) = "ok"

-----------------------------------------------------------------------------
(* The receiving bridge with deliveries that fail and are made again: the  *)
(* admin configures the route of chain 1, a provider funds the bridge, the *)
(* engine's admin takes CROSS_CHAIN_ROLE from the bridge and gives it back *)

NextRetry ==
    \/ \E caller \in Callers : ConfigureChain(caller, 1, RemoteBridge)
    \/ \E caller \in Subjects : AddLiquidity(caller, 1, LiquidityStep)
    \/ \E caller \in Callers : RevokeEngineRole(caller, CROSS_CHAIN_ROLE, Bridge)
    \/ \E caller \in Callers : GrantEngineRole(caller, CROSS_CHAIN_ROLE, Bridge)
    \/ \E m \in RetryMessages : CcipReceive(m)
    \/ \E m \in RetryMessages : CcipReceiveReverts(m)

SpecRetry == Init /\ [][NextRetry]_vars

(* the errors of inbound dispatch after the replay check *)
DispatchErrors ==
    {"InvalidMessageSource", "InsufficientLiquidity", "AccessControlUnauthorizedAccount"}

(* what a delivery that is applied writes: the tokens of a TokenTransfer *)
(* to the recipient, the counters of a ReputationSync to the user        *)
DeliveryApplied(m) ==
    /\ applied[m.messageId] = 0
    /\ applied'[m.messageId] = 1
    /\ m.messageId \in processedMessages'
    /\ m.data.messageType = "TokenTransfer" =>
          balances' = Transfer(balances, USDC, Bridge, m.data.recipient, m.data.amount)
    /\ m.data.messageType = "ReputationSync" =>
          /\ userReputations'[m.data.sender].successfulTrades
                = userReputations[m.data.sender].successfulTrades + m.data.data.trades
          /\ userReputations'[m.data.sender].totalRatingPoints
                = userReputations[m.data.sender].totalRatingPoints + m.data.data.points
          /\ userReputations'[m.data.sender].ratingCount
                = userReputations[m.data.sender].ratingCount + m.data.data.count

(* C31: a delivery that fails after the replay check (InvalidMessageSource, *)
(* InsufficientLiquidity on a TokenTransfer, a reputation sync the engine   *)
(* rejects) leaves the message id unprocessed and changes no balance, no    *)
(* reputation and nothing else; a later delivery of the same id that passes *)
(* the checks is applied, and no id is ever applied more than once.         *)
FailedDeliveryRetriable ==
    /\ [](\A id \in MessageIds : applied[id] <= 1)
    /\ [][Delivered =>
            LET m == last'.args[1]
            IN  /\ last'.err \in DispatchErrors =>
                      /\ m.messageId \notin processedMessages'
                      /\ applied'[m.messageId] = 0
                      /\ <<m.messageId, last'.err>> \in rejected'
                      /\ NothingWritten
                /\ last'.err = "InvalidMessageSource" => WrongSource(m)
                /\ last'.err = "InsufficientLiquidity" =>
                      /\ m.data.messageType = "TokenTransfer"
                      /\ balances[USDC][Bridge] < m.data.amount
                /\ last'.err = "AccessControlUnauthorizedAccount" =>
                      /\ m.data.messageType = "ReputationSync"
                      /\ ~HasRole(engineRoles, CROSS_CHAIN_ROLE, Bridge)
                /\ last'.err \notin DispatchErrors =>
                      last'.err \in {"ok", "MessageAlreadyProcessed"}
                /\ last'.err = "ok" => DeliveryApplied(m)
                /\ last'.err = "MessageAlreadyProcessed" =>
                      applied[m.messageId] = 1 /\ NothingWritten /\ rejected' = rejected]_vars

(* a token transfer the unfunded bridge could not pay, delivered again under *)
(* the same id after the bridge was funded, and paid                         *)
FailedDeliveryRetriableWitness ==
    /\ last.op = "ccipReceive"
    /\ last.err = "ok"
    /\ last.args[1].data.messageType = "TokenTransfer"
    /\ <<last.id, "InsufficientLiquidity">> \in rejected
    /\ applied[last.id] = 1
    /\ balances[USDC]["bob"] = InitialUserBalance + last.args[1].data.amount

(* a reputation sync the engine rejected while the bridge was without its *)
(* role, delivered again under the same id and applied; its id had also   *)
(* been refused for its source before                                     *)
RejectedSyncRetriedWitness ==
    /\ last.op = "ccipReceive"
    /\ last.err = "ok"
    /\ last.args[1].data.messageType = "ReputationSync"
    /\ <<last.id, "AccessControlUnauthorizedAccount">> \in rejected
    /\ <<last.id, "InvalidMessageSource">> \in rejected
    /\ applied[last.id] = 1
    /\ userReputations["alice"].successfulTrades = last.args[1].data.data.trades

-----------------------------------------------------------------------------
(* the evidence slot of a party in a Dispute record *)
EvidenceOf(dispute, trade, party) ==
    IF party = trade.buyer THEN dispute.buyerEvidence ELSE dispute.sellerEvidence

(* C32: a successful submitEvidence appends the evidence to the caller's own *)
(* slot, what the caller submitted before (at raiseDispute too) staying in   *)
(* front of it, and leaves the other party's slot and the rest of the record *)
(* as they were; a resolved Dispute record never changes.                    *)
EvidenceAppended ==
    /\ [][last'.op = "submitEvidence" /\ last'.err = "ok" =>
            LET id == last'.id
                caller == last'.args[1]
                other == IF caller = trades[id].buyer THEN trades[id].seller
                         ELSE trades[id].buyer
            IN  /\ EvidenceOf(disputes'[id], trades[id], caller)
                      = EvidenceOf(disputes[id], trades[id], caller) \o last'.args[2]
                /\ EvidenceOf(disputes'[id], trades[id], other)
                      = EvidenceOf(disputes[id], trades[id], other)
                /\ disputes'[id].initiator = disputes[id].initiator
                /\ disputes'[id].winner = disputes[id].winner
                /\ disputes'[id].isResolved = disputes[id].isResolved]_vars
    /\ [][\A id \in TradeIds :
            disputes[id].isResolved => disputes'[id] = disputes[id]]_vars

-----------------------------------------------------------------------------
(* The trade history: the escrow records one trade after another between  *)
(* alice and bob, the n-th under trade id n, up to MaxHistoryTrades.  Who  *)
(* sells is open for the first trades and for those recorded into a full  *)
(* history, and alice sells in between.                                   *)

HistorySellers(n) ==
    IF n <= OpenHistoryTrades \/ n > HistoryCap THEN Users ELSE {"alice"}

NextHistory ==
    \/ \E seller \in Users, buyer \in Users :
          LET n == userReputations[seller].totalTrades + 1
          IN  /\ n <= MaxHistoryTrades
              /\ seller \in HistorySellers(n)
              /\ buyer # seller
              /\ RecordTrade(Escrow, n, seller, buyer, MaxRating, MinRating)
    \/ \E caller \in Users :
          DirectCallReverts(caller, "recordTrade",
                            RecordTradeErr(engineRoles, caller, MaxRating, MinRating))

SpecHistory == Init /\ [][NextHistory]_vars

(* C33: each user's trade history holds at most 100 records, the user's   *)
(* most recent min(n, 100) in the order they were recorded (trade ids are *)
(* 1, 2, 3, ... here, so the ids kept are the last ones, ascending); a    *)
(* recordTrade drops the oldest record of a full history and puts the new *)
(* one last, with wasBuyer false for the seller and true for the buyer.   *)
BoundedHistory ==
    /\ [](\A u \in Users :
            LET h == userTradeHistory[u]
                n == userReputations[u].totalTrades
            IN  /\ Len(h) <= 100
                /\ Len(h) = IF n < 100 THEN n ELSE 100
                /\ \A i \in 1..Len(h) : h[i].tradeId = n - Len(h) + i)
    /\ [][last'.op = "recordTrade" /\ last'.err = "ok" =>
            LET seller == last'.args[1]
                buyer == last'.args[2]
                Kept(u) == IF Len(userTradeHistory[u]) >= 100
                           THEN Tail(userTradeHistory[u])
                           ELSE userTradeHistory[u]
                New(u) == userTradeHistory'[u][Len(userTradeHistory'[u])]
            IN  /\ \A u \in Users :
                      SubSeq(userTradeHistory'[u], 1, Len(userTradeHistory'[u]) - 1)
                         = Kept(u)
                /\ New(seller).tradeId = last'.id
                /\ New(seller).counterparty = buyer
                /\ ~New(seller).wasBuyer
                /\ New(buyer).tradeId = last'.id
                /\ New(buyer).counterparty = seller
                /\ New(buyer).wasBuyer]_vars

(* the second trade recorded into a full history: trades 1 and 2 are gone, *)
(* trade 3 is the oldest kept, and bob sold the last one                   *)
BoundedHistoryWitness ==
    /\ last.op = "recordTrade"
    /\ last.err = "ok"
    /\ last.id = 102
    /\ last.args[1] = "bob"
    /\ \A u \in Users :
          /\ Len(userTradeHistory[u]) = 100
          /\ userTradeHistory[u][1].tradeId = 3
          /\ userTradeHistory[u][100].tradeId = 102
    /\ ~userTradeHistory["bob"][100].wasBuyer
    /\ userTradeHistory["alice"][100].wasBuyer

-----------------------------------------------------------------------------
(* The badge registry with upgrades: minters and users mint and upgrade, *)
(* the admin may grant MINTER_ROLE to the registry itself                *)

NextUpgrade ==
    \/ \E caller \in BadgeCallers, to \in Users, tier \in MintTiers :
          MintBadge(caller, to, tier)
    \/ \E caller \in BadgeCallers, holder \in Users, tier \in BadgeTiers :
          UpgradeBadge(caller, holder, tier)
    \/ \E caller \in BadgeCallers, holder \in Users, tier \in BadgeTiers :
          UpgradeBadgeReverts(caller, holder, tier)
    \/ \E caller \in BadgeCallers : GrantBadgeRole(caller, MINTER_ROLE, Badge)
    \/ \E caller \in BadgeCallers : RevokeBadgeRole(caller, MINTER_ROLE, Badge)

SpecUpgrade == Init /\ [][NextUpgrade]_vars

(* what upgradeBadge does when it succeeds: one new token of the tier, owned *)
(* by the holder, whose highest tier becomes that tier                       *)
UpgradeMints(holder, newTier) ==
    /\ tokenIdCounter' = tokenIdCounter + 1
    /\ userBadges'[holder][newTier] = tokenIdCounter'
    /\ owners'[tokenIdCounter'] = holder
    /\ badgeMetadata'[tokenIdCounter'].tier = newTier
    /\ userHighestTier'[holder] = newTier

(* C34: upgradeBadge called by a holder of MINTER_ROLE succeeds when the new *)
(* tier is above the holder's highest tier, minting a badge of that tier and *)
(* raising the highest tier to it, and fails with InvalidTier when the new   *)
(* tier is not above it.                                                     *)
UpgradeByMinterSucceeds ==
    [][last'.op = "upgradeBadge" /\ Len(last'.args) = 2
          /\ HasRole(badgeRoles, MINTER_ROLE, last'.args[2]) =>
            LET holder == last'.args[1]
                newTier == last'.id
            IN  IF newTier > userHighestTier[holder]
                THEN last'.err = "ok" /\ UpgradeMints(holder, newTier)
                ELSE last'.err = "InvalidTier"]_vars

(* the same, for a registry that holds its own MINTER_ROLE *)
UpgradeWhileRegistryIsMinter ==
    [][last'.op = "upgradeBadge" /\ Len(last'.args) = 2
          /\ HasRole(badgeRoles, MINTER_ROLE, last'.args[2]) =>
            LET holder == last'.args[1]
                newTier == last'.id
            IN  IF newTier <= userHighestTier[holder]
                THEN last'.err = "InvalidTier"
                ELSE IF HasRole(badgeRoles, MINTER_ROLE, Badge)
                THEN last'.err = "ok" /\ UpgradeMints(holder, newTier)
                ELSE last'.err = "AccessControlUnauthorizedAccount"]_vars

-----------------------------------------------------------------------------
(* Reputation bridging on the sending side: the escrow records trades with *)
(* mixed ratings, the admin opens and closes the route of chain 1, users   *)
(* call syncReputation                                                     *)

NextSync ==
    \/ \E id \in TradeIds, r \in MixedRatings :
          RecordTrade(Escrow, id, "bob", "alice", MaxRating, r)
    \/ \E caller \in Callers : ConfigureChain(caller, 1, RemoteBridge)
    \/ \E caller \in Callers : DeactivateChain(caller, 1)
    \/ \E caller \in Users, c \in ChainSelectors : SyncReputation(caller, c)
    \/ \E caller \in Users, c \in ChainSelectors : SyncReputationReverts(caller, c)

SpecSync == Init /\ [][NextSync]_vars

(* a syncReputation call either fails with UnsupportedChain, the destination *)
(* being inactive, or hands the router one ReputationSync message of the     *)
(* caller with the payload given, and leaves the engine alone                *)
SyncDispatches(Payload(_)) ==
    last'.op = "syncReputation" =>
        LET caller == last'.args[1]
            destinationChain == last'.id
        IN  IF ~chainConfigs[destinationChain].isActive
            THEN last'.err = "UnsupportedChain" /\ NothingWritten
            ELSE /\ last'.err = "ok"
                 /\ Len(sentSyncs') = Len(sentSyncs) + 1
                 /\ SubSeq(sentSyncs', 1, Len(sentSyncs)) = sentSyncs
                 /\ LET sent == sentSyncs'[Len(sentSyncs')]
                    IN  /\ sent.destinationChain = destinationChain
                        /\ sent.data.messageType = "ReputationSync"
                        /\ sent.data.sender = caller
                        /\ sent.data.data = Payload(caller)
                 /\ UNCHANGED <<engineVars, badgeVars>>

(* C35: syncReputation fails with UnsupportedChain for an inactive          *)
(* destination and otherwise dispatches one ReputationSync message carrying *)
(* the caller's successfulTrades, totalRatingPoints and ratingCount, the    *)
(* caller's reputation staying as it is.                                    *)
SyncCarriesReputation ==
    [][SyncDispatches(LAMBDA caller :
          [trades |-> userReputations[caller].successfulTrades,
           points |-> userReputations[caller].totalRatingPoints,
           count |-> userReputations[caller].ratingCount])]_vars

(* the payload the code sends: the rounded-down average times the number of *)
(* successful trades for the points, the successful trades for the count    *)
SyncCarriesRoundedAverage ==
    [][SyncDispatches(LAMBDA caller :
          LET rep == userReputations[caller]
          IN  [trades |-> rep.successfulTrades,
               points |-> IF rep.ratingCount = 0 THEN 0
                          ELSE (rep.totalRatingPoints \div rep.ratingCount)
                                  * rep.successfulTrades,
               count |-> rep.successfulTrades])]_vars

-----------------------------------------------------------------------------
(* Reputation bridging on the receiving side: trades are recorded on the  *)
(* ledger of chain 1 only, its users call syncReputation towards this     *)
(* ledger, the route is configured here and the router delivers what is   *)
(* in flight, in any order and as often as it likes                       *)

NextInflation ==
    \/ \E r \in Ratings : RemoteRecordTrade("bob", "alice", r, r)
    \/ \E user \in Users : RemoteSyncReputation(user)
    \/ \E caller \in Callers : ConfigureChain(caller, 1, RemoteBridge)
    \/ \E m \in inFlight : CcipReceive(m)
    \/ \E m \in inFlight : CcipReceiveReverts(m)

SpecInflation == Init /\ [][NextInflation]_vars

(* the messages of a user that were applied here *)
AppliedSyncs(user) ==
    {m \in inFlight : m.messageId \in processedMessages /\ m.data.sender = user}

(* C36: repeating syncReputation does not inflate the reputation on the    *)
(* destination. What this ledger has credited to a user from chain 1 never *)
(* exceeds the user's counters there, and the delivery of a second sync of *)
(* a user whose reputation on chain 1 has not changed since the first (the *)
(* payloads are equal) adds nothing to the user's counters here.           *)
NoInflationByRepetition ==
    /\ [](\A u \in Users :
            /\ userReputations[u].successfulTrades
                  <= remoteReputations[u].successfulTrades
            /\ userReputations[u].totalTrades <= remoteReputations[u].totalTrades
            /\ userReputations[u].ratingCount <= remoteReputations[u].ratingCount)
    /\ [][Delivered /\ last'.err = "ok" =>
            LET m == last'.args[1]
                u == m.data.sender
            IN  (\E first \in AppliedSyncs(u) : first.data.data = m.data.data) =>
                   userReputations'[u] = userReputations[u]]_vars

(* what the code does: every sync that is delivered adds its whole payload, *)
(* so a user's counters here are the sums over the applied messages         *)
RECURSIVE SumTrades(_)
SumTrades(messages) ==
    IF messages = {} THEN 0
    ELSE LET m == CHOOSE x \in messages : TRUE
         IN  m.data.data.trades + SumTrades(messages \ {m})

SyncsAddUp ==
    \A u \in Users :
        /\ userReputations[u].successfulTrades = SumTrades(AppliedSyncs(u))
        /\ userReputations[u].totalTrades = SumTrades(AppliedSyncs(u))
        /\ userReputations[u].ratingCount = SumTrades(AppliedSyncs(u))

-----------------------------------------------------------------------------
(* Two reputation syncs of one user from the bridge of chain 1, one of ten *)
(* trades at 500 and one of ten trades at 100, delivered in either order   *)
(* and again, by the configured bridge and by another sender, while the    *)
(* admin opens and closes the route                                        *)

SyncsInOrder ==
    <<[messageId |-> "m1", sourceChainSelector |-> 1, sender |-> RemoteBridge,
       data |-> [messageType |-> "ReputationSync", sender |-> "alice",
                 recipient |-> "alice", amount |-> 0,
                 data |-> [trades |-> 10, points |-> 5000, count |-> 10]]],
      [messageId |-> "m2", sourceChainSelector |-> 1, sender |-> RemoteBridge,
       data |-> [messageType |-> "ReputationSync", sender |-> "alice",
                 recipient |-> "alice", amount |-> 0,
                 data |-> [trades |-> 10, points |-> 1000, count |-> 10]]]>>

SyncDeliveries ==
    {[SyncsInOrder[i] EXCEPT !.sender = s] : i \in 1..Len(SyncsInOrder), s \in Senders}

NextOrder ==
    \/ \E caller \in Callers : ConfigureChain(caller, 1, RemoteBridge)
    \/ \E caller \in Callers : DeactivateChain(caller, 1)
    \/ \E m \in SyncDeliveries : CcipReceive(m)
    \/ \E m \in SyncDeliveries : CcipReceiveReverts(m)

SpecOrder == Init /\ [][NextOrder]_vars

(* the engine and the badge registry after the messages of a sequence were *)
(* applied one after the other to the engine and registry as deployed      *)
RECURSIVE AppliedInOrder(_, _)
AppliedInOrder(state, messages) ==
    IF messages = <<>> THEN state
    ELSE LET m == Head(messages)
         IN  AppliedInOrder(
                 EngineSync(state.reps, state.processed, InitialThresholds,
                            InitialBadgeRoles, state.bs, m.data.sender, m.data.data,
                            SyncId(m.messageId, m.sourceChainSelector, m.data.sender)),
                 Tail(messages))

AsDeployed ==
    [reps |-> [u \in Users |-> NoReputation], processed |-> {},
     bs |-> [userBadges |-> [u \in Users |-> [tier \in 1..5 |-> 0]],
             userHighestTier |-> [u \in Users |-> None], tokenIdCounter |-> 0,
             owners |-> <<>>, badgeMetadata |-> <<>>]]

(* the applied messages, in the order of their ids *)
AppliedById == SelectSeq(SyncsInOrder, LAMBDA m : m.messageId \in processedMessages)

(* C37 as stated: whatever the order of delivery and however often a message *)
(* is redelivered, the user's counters and highest badge tier are the ones   *)
(* that applying the same messages once each in the order of their ids gives *)
DeliveryOrderIndependent ==
    \A u \in Users :
        /\ userReputations[u] = AppliedInOrder(AsDeployed, AppliedById).reps[u]
        /\ userHighestTier[u]
              = AppliedInOrder(AsDeployed, AppliedById).bs.userHighestTier[u]

(* the sum of a payload field over the applied messages of a user *)
RECURSIVE SumApplied(_, _, _)
SumApplied(field, u, messages) ==
    IF messages = <<>> THEN 0
    ELSE (IF Head(messages).data.sender = u THEN Head(messages).data.data[field]
          ELSE 0)
         + SumApplied(field, u, Tail(messages))

(* C37: the counters of a user depend only on which authenticated messages  *)
(* were applied, not on the order of delivery or on redeliveries: they are  *)
(* the sums of the payloads, each message counted once, and a redelivery    *)
(* writes nothing. The highest badge tier is never below the tier the final *)
(* counters are eligible for, but it does depend on the order: a tier       *)
(* reached after some of the messages is kept when later ones lower the     *)
(* average.                                                                 *)
CountersOrderIndependent ==
    /\ [](\A u \in Users :
            /\ userReputations[u].totalTrades = SumApplied("trades", u, AppliedById)
            /\ userReputations[u].successfulTrades
                  = SumApplied("trades", u, AppliedById)
            /\ userReputations[u].totalRatingPoints
                  = SumApplied("points", u, AppliedById)
            /\ userReputations[u].ratingCount = SumApplied("count", u, AppliedById)
            /\ userHighestTier[u] >=
                  DetermineEligibleTier(tierThresholds,
                                        userReputations[u].successfulTrades,
                                        CalculateAverageRating(userReputations, u)))
    /\ [][Delivered /\ last'.id \in processedMessages =>
             last'.err = "MessageAlreadyProcessed" /\ NothingWritten]_vars

(* both messages applied, the one at 500 first: alice holds Bronze with 20 *)
(* trades at an average of 300, and the one at 500 was delivered again     *)
CountersOrderIndependentWitness ==
    /\ processedMessages = {"m1", "m2"}
    /\ userHighestTier["alice"] = Bronze
    /\ userReputations["alice"].successfulTrades = 20
    /\ userReputations["alice"].totalRatingPoints = 6000
    /\ last.op = "ccipReceive"
    /\ last.id = "m1"
    /\ last.err = "MessageAlreadyProcessed"

(* the same messages applied in the other order: the same counters, no badge *)
OtherOrderWitness ==
    /\ processedMessages = {"m1", "m2"}
    /\ userHighestTier["alice"] = None
    /\ userReputations["alice"].successfulTrades = 20
    /\ userReputations["alice"].totalRatingPoints = 6000

-----------------------------------------------------------------------------
(* Two ledgers: on each the escrow records rated trades in the engine     *)
(* (rateBuyer, recordTrade) and users call syncReputation towards the     *)
(* other; the router delivers what is in flight, in any order and as      *)
(* often as it likes                                                      *)

NextCounters ==
    \/ \E r \in MixedRatings : RecordTrade(Escrow, 1, "bob", "alice", MaxRating, r)
    \/ \E r \in MixedRatings : RemoteRecordTrade("alice", "bob", r, MinRating)
    \/ \E caller \in Callers : ConfigureChain(caller, 1, RemoteBridge)
    \/ \E caller \in Subjects : SyncReputation(caller, 1)
    \/ \E i \in 1..MaxSyncs : i <= Len(sentSyncs) /\ RemoteCcipReceive(i)
    \/ \E user \in Subjects : RemoteSyncReputation(user)
    \/ \E m \in inFlight : CcipReceive(m)
    \/ \E m \in inFlight : CcipReceiveReverts(m)

SpecCounters == Init /\ [][NextCounters]_vars

CountersAgree(rep) ==
    /\ rep.successfulTrades = rep.totalTrades
    /\ rep.totalTrades = rep.ratingCount
    /\ rep.ratingCount > 0 =>
          /\ rep.totalRatingPoints \div rep.ratingCount >= 100
          /\ rep.totalRatingPoints \div rep.ratingCount <= 500

(* C38: on a ledger whose reputation is written only by recorded trades and *)
(* by the reputation syncs of the other ledger's bridge, every user has     *)
(* successfulTrades = totalTrades = ratingCount, and an average rating      *)
(* between 100 and 500 once a rating is counted.                            *)
CounterInvariant ==
    \A u \in Users :
        /\ CountersAgree(userReputations[u])
        /\ CountersAgree(remoteReputations[u])

(* alice after one trade rated 425 here and a sync from chain 1, where she *)
(* had two trades at an average of 262: three trades at an average of 316  *)
CounterInvariantWitness ==
    /\ last.op = "ccipReceive"
    /\ last.err = "ok"
    /\ recorded[1] = 1
    /\ userReputations["alice"].successfulTrades = 3
    /\ userReputations["alice"].totalRatingPoints = 949
    /\ remoteReputations["alice"].totalRatingPoints = 525

-----------------------------------------------------------------------------
(* The receiving bridge while the admin opens and closes the route of *)
(* chain 1: a provider funds the bridge, the router delivers a token  *)
(* transfer and a reputation sync                                     *)

NextDeactivate ==
    \/ \E caller \in Callers : ConfigureChain(caller, 1, RemoteBridge)
    \/ \E caller \in Callers : DeactivateChain(caller, 1)
    \/ \E caller \in Subjects : AddLiquidity(caller, 1, LiquidityStep)
    \/ \E m \in RetryMessages : CcipReceive(m)
    \/ \E m \in RetryMessages : CcipReceiveReverts(m)

SpecDeactivate == Init /\ [][NextDeactivate]_vars

(* C39: while a chain is deactivated no message from it is applied: no    *)
(* delivery with that source chain releases tokens or changes a user's    *)
(* reputation until the chain is configured again.                        *)
DeactivatedChainIsolated ==
    [][Delivered /\ ~chainConfigs[last'.args[1].sourceChainSelector].isActive =>
          /\ last'.err # "ok"
          /\ balances' = balances
          /\ userReputations' = userReputations]_vars

(* what the code checks: the sender against the bridge recorded for the *)
(* source chain, whether the chain is active or not                     *)
DeactivationKeepsTheRoute ==
    [][/\ last'.op = "deactivateChain" =>
             chainConfigs'[last'.id].bridgeContract
                = chainConfigs[last'.id].bridgeContract
       /\ Delivered /\ last'.err = "ok" =>
             last'.args[1].sender
                = chainConfigs[last'.args[1].sourceChainSelector].bridgeContract]_vars

-----------------------------------------------------------------------------
(* the bridge's tokens against what the pools record *)

PooledLiquidity == liquidityPool[1] + liquidityPool[2]

Surplus == balances[USDC][Bridge] - PooledLiquidity

(* C40: relay solvency: after any sequence of addLiquidity,               *)
(* removeLiquidity, bridgeTokens and inbound token transfers the bridge   *)
(* holds at least the sum of the per-chain pool balances, so that no      *)
(* removeLiquidity within the recorded pool balance fails for lack of     *)
(* tokens.                                                                *)
RelaySolvent ==
    /\ balances[USDC][Bridge] >= PooledLiquidity
    /\ last.op = "removeLiquidity" => last.err # "ERC20InsufficientBalance"

(* what the code keeps: only an inbound delivery lowers the bridge's *)
(* tokens against the pools                                          *)
OnlyDeliveriesDrain ==
    [][~Delivered => Surplus' >= Surplus]_vars

====
